---- MODULE Spec2Model ----
(***************************************************************************)
(* Model of the neo4j_driver service.                                      *)
(*                                                                         *)
(* app/core/transform_kgout_pxlsviz_service.py: GraphTransformer turns a   *)
(* list of "bags of relationship objects" into a deduplicated              *)
(* {nodes, relationships} graph (Spec; SpecReuse: two calls on one         *)
(* instance; SpecConcurrent: two transform_to_pxlsviz calls interleaved).  *)
(* app/core/query_service.py, readkg_service.py, app/api and app/__init__: *)
(* the query services, the routes and the application (SpecService).       *)
(* app/core/db.py: Neo4jConnection with its retry decorator, called in    *)
(* sequence (SpecDb) and by concurrent tasks of one event loop             *)
(* (SpecTasks), and _convert_to_serializable (SpecConvert).                *)
(*                                                                         *)
(* Python objects are tagged values [t |-> type, v |-> payload]:           *)
(*   none, str, int, list (payload: sequence) and dict.  A relationship    *)
(*   object or a node is a dict whose payload is a function from keys to   *)
(*   values (dict equality ignores order).  An item of the outer list is   *)
(*   iterated with .items(), so its payload keeps the insertion order: a   *)
(*   sequence of [key, val] pairs.                                         *)
(***************************************************************************)
EXTENDS Integers, Sequences, FiniteSets, TLC

\* ------------------------------------------------------------------------
\* Python values
\* ------------------------------------------------------------------------
PyNone == [t |-> "none", v |-> ""]
PyStr(s) == [t |-> "str", v |-> s]
PyInt(n) == [t |-> "int", v |-> n]
PyList(s) == [t |-> "list", v |-> s]
PyDict(f) == [t |-> "dict", v |-> f]

\* isinstance(x, dict) / isinstance(x, str)
IsDict(x) == x.t = "dict"
IsStr(x) == x.t = "str"

\* bool(x): None, "", 0, [] and {} are falsy
Truthy(x) ==
    CASE x.t = "none" -> FALSE
      [] x.t = "str" -> x.v # ""
      [] x.t = "int" -> x.v # 0
      [] x.t = "list" -> x.v # <<>>
      [] x.t = "dict" -> DOMAIN x.v # {}

\* hash(x) succeeds: lists and dicts are unhashable (TypeError)
Hashable(x) == x.t \notin {"list", "dict"}

\* d.get(k): the value under k, None when the key is missing
Get(d, k) == IF k \in DOMAIN d.v THEN d.v[k] ELSE PyNone

Digit(d) ==
    CASE d = 0 -> "0" [] d = 1 -> "1" [] d = 2 -> "2" [] d = 3 -> "3"
      [] d = 4 -> "4" [] d = 5 -> "5" [] d = 6 -> "6" [] d = 7 -> "7"
      [] d = 8 -> "8" [] d = 9 -> "9"

RECURSIVE NatStr(_)
NatStr(n) == IF n < 10 THEN Digit(n) ELSE NatStr(n \div 10) \o Digit(n % 10)

\* format(x) inside an f-string, for the values that reach it (hashable ids)
Format(x) ==
    CASE x.t = "str" -> x.v
      [] x.t = "int" -> IF x.v < 0 THEN "-" \o NatStr(0 - x.v) ELSE NatStr(x.v)
      [] x.t = "none" -> "None"

\* ------------------------------------------------------------------------
\* Configuration
\* ------------------------------------------------------------------------
DEFAULT_PARAMS ==
    [source_node_tag |-> "start", target_node_tag |-> "end",
     relationship_type_tag |-> "type"]

DEFAULT_EXCLUDED_PROPERTIES == {"source", "target", "start", "end"}

\* GraphTransformer.__init__: the defaults, updated with the given params
\* (a dict, or None / empty for "no params"); only the three tags are ever
\* read back, so other keys of the given dict are left out
InitParams(given) ==
    IF Truthy(given)
    THEN [k \in DOMAIN DEFAULT_PARAMS |->
            IF k \in DOMAIN given.v THEN given.v[k] ELSE DEFAULT_PARAMS[k]]
    ELSE DEFAULT_PARAMS

\* ------------------------------------------------------------------------
\* Pure helpers of GraphTransformer
\* ------------------------------------------------------------------------
generate_relationship_id(start_id, rel_type, end_id) ==
    PyStr(Format(start_id) \o "_" \o Format(rel_type) \o "_" \o Format(end_id))

_extract_node(node_data) ==
    IF /\ IsDict(node_data)
       /\ "id" \in DOMAIN node_data.v
       /\ node_data.v["id"] # PyNone
    THEN node_data
    ELSE PyNone

_extract_nodes_and_ids(p, rel_data) ==
    LET start_node == _extract_node(Get(rel_data, p.source_node_tag))
        end_node == _extract_node(Get(rel_data, p.target_node_tag))
    IN  [start_node |-> start_node,
         start_id |-> IF Truthy(start_node) THEN Get(start_node, "id") ELSE PyNone,
         end_node |-> end_node,
         end_id |-> IF Truthy(end_node) THEN Get(end_node, "id") ELSE PyNone]

\* variant: only the source side is validated
NodesPresentSourceOnly(ex) ==
    Truthy(ex.start_node) /\ Truthy(ex.start_id)

\* the check `start_node and start_id and end_node and end_id`
NodesPresent(ex) ==
    /\ Truthy(ex.start_node) /\ Truthy(ex.start_id)
    /\ Truthy(ex.end_node) /\ Truthy(ex.end_id)

\* variant: the fixed exclusion set is forgotten
excluded_properties_tags_only(p) ==
    {p.source_node_tag, p.target_node_tag}

excluded_properties(p) ==
    {p.source_node_tag, p.target_node_tag} \cup DEFAULT_EXCLUDED_PROPERTIES

_transform_single_relationship(p, rel_data, start_id, end_id) ==
    LET rel_type == Get(rel_data, p.relationship_type_tag)
        base == [id |-> generate_relationship_id(start_id, rel_type, end_id),
                 source |-> start_id, target |-> end_id, type |-> rel_type]
        copied == DOMAIN rel_data.v \ excluded_properties(p)
    IN  IF ~IsStr(rel_type) \/ ~Truthy(rel_type)
        THEN PyNone
        ELSE PyDict([k \in DOMAIN base \cup copied |->
                        IF k \in copied THEN rel_data.v[k] ELSE base[k]])

\* `key in self._unique_nodes` on the insertion-ordered node dict
HasNode(un, id) == \E n \in 1..Len(un) : un[n].key = id

\* variant: unconditional `self._unique_nodes[id] = node` (last seen wins)
AddNodeOverwrite(un, id, node) ==
    IF HasNode(un, id)
    THEN [n \in 1..Len(un) |-> IF un[n].key = id THEN [key |-> id, val |-> node]
                                                 ELSE un[n]]
    ELSE Append(un, [key |-> id, val |-> node])

\* variant: a new node is put in front of the ones already registered
AddNodeInFront(un, id, node) ==
    IF HasNode(un, id) THEN un ELSE <<[key |-> id, val |-> node]>> \o un

\* `if id not in self._unique_nodes: self._unique_nodes[id] = node`
AddNode(un, id, node) ==
    IF HasNode(un, id) THEN un ELSE Append(un, [key |-> id, val |-> node])

\* variant: only the source node is registered
RegisterNodesSourceOnly(un, p, rel_data) ==
    LET ex == _extract_nodes_and_ids(p, rel_data)
    IN  AddNode(un, ex.start_id, ex.start_node)

\* variant: the nodes are registered only once the relationship has a valid type
RegisterNodesAfterTypeCheck(un, p, rel_data) ==
    LET ex == _extract_nodes_and_ids(p, rel_data)
    IN  IF _transform_single_relationship(p, rel_data, ex.start_id, ex.end_id) = PyNone
        THEN un
        ELSE AddNode(AddNode(un, ex.start_id, ex.start_node), ex.end_id, ex.end_node)

\* the two registrations of a record with both nodes present, made before
\* the relationship itself is transformed
RegisterNodes(un, p, rel_data) ==
    LET ex == _extract_nodes_and_ids(p, rel_data)
    IN  AddNode(AddNode(un, ex.start_id, ex.start_node), ex.end_id, ex.end_node)

\* list(self._unique_nodes.values())
NodeValues(un) == [n \in 1..Len(un) |-> un[n].val]

\* variant: the type check of the argument is missing
isinstance_list_unchecked(x) == TRUE

\* isinstance(source_data, list)
isinstance_list(x) == x.t = "list"

\* iter(x) succeeds for a list, a dict (its keys) and a str (its characters)
Iterable(x) == x.t \in {"list", "dict", "str"}

\* the elements a `for` statement draws from x
Elements(x) ==
    CASE x.t = "list" -> x.v
      [] x.t = "dict" -> [n \in 1..Len(x.v) |-> PyStr(x.v[n].key)]
      [] x.t = "str" -> [n \in 1..Len(x.v) |-> PyStr(SubSeq(x.v, n, n))]

\* ------------------------------------------------------------------------
\* One relationship value of the inner loop (transform_data, body of the
\* `for rel_key, rel_data in item_dict.items()` loop).  st is the run state:
\*   un  _unique_nodes (insertion-ordered: sequence of [key, val])
\*   tr  _transformed_relationships     ids  _processed_rel_ids
\*   total, skipped  the two counters   raised  a TypeError escaped
\*   bf  for every emitted edge, the position of the record it was built
\*       from (history, not program state)
\* ------------------------------------------------------------------------
EmptyRun ==
    [un |-> <<>>, tr |-> <<>>, ids |-> {}, total |-> 0, skipped |-> 0,
     raised |-> FALSE, bf |-> <<>>]

ProcessRel(p, st, rel_data, pos) ==
    IF ~IsDict(rel_data)
    THEN [st EXCEPT !.skipped = @ + 1]
    ELSE
      LET st1 == [st EXCEPT !.total = @ + 1]
          ex == _extract_nodes_and_ids(p, rel_data)
          un1 == AddNode(st.un, ex.start_id, ex.start_node)
          un2 == RegisterNodes(st.un, p, rel_data)
          edge == _transform_single_relationship(p, rel_data, ex.start_id, ex.end_id)
      IN  IF ~NodesPresent(ex)
          THEN [st1 EXCEPT !.skipped = @ + 1]
          ELSE IF ~Hashable(ex.start_id)
          THEN [st1 EXCEPT !.raised = TRUE]
          ELSE IF ~Hashable(ex.end_id)
          THEN [st1 EXCEPT !.un = un1, !.raised = TRUE]
          ELSE IF edge = PyNone
          THEN [st1 EXCEPT !.un = un2, !.skipped = @ + 1]
          ELSE IF ~Hashable(edge.v["id"])
          THEN [st1 EXCEPT !.un = un2, !.raised = TRUE]
          ELSE IF edge.v["id"] \notin st.ids
          THEN [st1 EXCEPT !.un = un2, !.tr = Append(@, edge),
                           !.ids = @ \cup {edge.v["id"]},
                           !.bf = Append(@, pos)]
          ELSE [st1 EXCEPT !.un = un2]

\* Position of the two nested loops: <<i, j>> is the j-th value of the i-th
\* item; an item that is not a dict sits at <<i, 1>>; the loops are over at
\* <<Len + 1, 1>>.  A dict item with no (further) value is stepped over.
RECURSIVE Norm(_, _, _)
Norm(items, i, j) ==
    IF i > Len(items) THEN <<Len(items) + 1, 1>>
    ELSE IF IsDict(items[i]) /\ j > Len(items[i].v) THEN Norm(items, i + 1, 1)
    ELSE <<i, j>>

\* ------------------------------------------------------------------------
\* Inputs
\* ------------------------------------------------------------------------
\* bound on the number of elements of the input list, counted as non-dict
\* items, empty dict items and values of dict items together
MaxSize == 2

ParamChoices ==
    { PyNone,
      PyDict([source_node_tag |-> "src", relationship_type_tag |-> "kind"]) }

Absent == [t |-> "absent", v |-> ""]

NodeA == PyDict([id |-> PyStr("1")])
NodeA2 == PyDict([id |-> PyStr("1"), name |-> PyStr("x")])
NodeB == PyDict([id |-> PyStr("2")])
NodeI1 == PyDict([id |-> PyInt(1)])
NodeNoId == PyDict([name |-> PyStr("x")])
NodeNullId == PyDict([id |-> PyNone])
NodeFalsyId == PyDict([id |-> PyStr("")])
NodeListId == PyDict([id |-> PyList(<<PyInt(1)>>)])

\* a relationship object with the given source, target and kind under the
\* tags of p (Absent: the key is missing) and the extra properties
Rel(p, s, e, k, extra) ==
    LET tagged == (IF s = Absent THEN {} ELSE {p.source_node_tag})
                  \cup (IF e = Absent THEN {} ELSE {p.target_node_tag})
                  \cup (IF k = Absent THEN {} ELSE {p.relationship_type_tag})
    IN  PyDict([key \in tagged \cup DOMAIN extra |->
                  IF key = p.source_node_tag /\ s # Absent THEN s
                  ELSE IF key = p.target_node_tag /\ e # Absent THEN e
                  ELSE IF key = p.relationship_type_tag /\ k # Absent THEN k
                  ELSE extra[key]])

NoExtra == [key \in {} |-> PyNone]

\* properties named like the fixed exclusions and like "type", where those
\* names are not the tags of p, and an ordinary property
StrayProps(p) ==
    LET tags == {p.source_node_tag, p.target_node_tag, p.relationship_type_tag}
    IN  [key \in ({"source", "target", "start", "end", "type", "weight"} \ tags) |->
            IF key = "weight" THEN PyInt(3) ELSE PyStr("stray_" \o key)]

RelUniverse(p) ==
    LET K == PyStr("KNOWS")
    IN  { Rel(p, NodeA, NodeB, K, NoExtra),
          Rel(p, NodeA2, NodeB, K, NoExtra),
          Rel(p, NodeB, NodeA2, PyStr("LIKES"), NoExtra),
          Rel(p, NodeA, NodeA2, K, NoExtra),
          Rel(p, NodeI1, NodeB, K, NoExtra),
          Rel(p, Absent, NodeB, K, NoExtra),
          Rel(p, PyStr("n"), NodeB, K, NoExtra),
          Rel(p, NodeA, NodeNoId, K, NoExtra),
          Rel(p, NodeA, NodeNullId, K, NoExtra),
          Rel(p, NodeFalsyId, NodeB, K, NoExtra),
          Rel(p, NodeListId, NodeB, K, NoExtra),
          Rel(p, NodeA, NodeListId, K, NoExtra),
          Rel(p, NodeB, NodeA2, Absent, NoExtra),
          Rel(p, NodeA2, NodeB, PyStr(""), NoExtra),
          Rel(p, NodeA, NodeB, PyInt(5), NoExtra),
          Rel(p, NodeA, NodeB, K, [id |-> PyStr("e7")]),
          Rel(p, NodeA, NodeB, K, [id |-> PyList(<<>>)]),
          Rel(p, NodeA, NodeB, K, StrayProps(p)) }

NonDictItems == {PyStr("oops")}
NonDictValues == {PyInt(7)}

Leaves(p) == RelUniverse(p) \cup NonDictValues

RelKey(n) == "rel" \o NatStr(n)

\* the dict items with exactly w values
DictItems(p, w) ==
    { PyDict([n \in 1..w |-> [key |-> RelKey(n), val |-> f[n]]]) :
        f \in [1..w -> Leaves(p)] }

ItemsOfSize(p, w) ==
    DictItems(p, w) \cup (IF w = 1 THEN NonDictItems \cup {PyDict(<<>>)} ELSE {})

RECURSIVE ListsUpTo(_, _)
ListsUpTo(p, n) ==
    {<<>>} \cup UNION { { <<it>> \o rest : it \in ItemsOfSize(p, w),
                                          rest \in ListsUpTo(p, n - w) } :
                        w \in 1..n }

NonListInputs(p) ==
    { PyNone, PyStr("ab"),
      PyDict(<<[key |-> "rel", val |-> Rel(p, NodeA, NodeB, PyStr("KNOWS"), NoExtra)]>>) }

Inputs(p) == { PyList(l) : l \in ListsUpTo(p, MaxSize) } \cup NonListInputs(p)

\* ------------------------------------------------------------------------
\* State
\* ------------------------------------------------------------------------
VARIABLES
    params,                      \* self.params
    source_data,                 \* the argument of transform_data
    pc,                          \* "idle", "loop", "done" or "raised"
    pos,                         \* position of the two nested loops
    _unique_nodes,
    _transformed_relationships,
    _processed_rel_ids,
    _total_rels_processed,
    _skipped_rels,
    result,                      \* the returned {nodes, relationships}
    built_from,                  \* history: position of each edge's record
    previous_data,               \* history: argument of the previous call on
                                 \* this instance, Absent before a second call
    inst,                        \* transform_to_pxlsviz: the GraphTransformer
                                 \* instances, by the call that constructed them
    call,                        \* transform_to_pxlsviz: the calls in flight
    db_behaviour,                \* what Neo4jConnection.execute_query does
    request,                     \* the service call or HTTP request handled
    response,                    \* what the caller or client gets back
    log,                         \* the log records written while handling it
    _driver,                     \* Neo4jConnection._driver
    _async_driver,               \* Neo4jConnection._async_driver
    _initialized,                \* Neo4jConnection._initialized
    drivers,                     \* every driver object created so far
    db_call,                     \* the last Neo4jConnection call and its outcome
    task,                        \* the Neo4jConnection calls in flight on the
                                 \* event loop, by the task that awaits them
    conv_in,                     \* argument of _convert_to_serializable
    conv_out                     \* its outcome

\* the variables of one GraphTransformer instance and of its caller
transformer_vars ==
    <<params, source_data, pc, pos, _unique_nodes, _transformed_relationships,
      _processed_rel_ids, _total_rels_processed, _skipped_rels, result,
      built_from>>

reuse_vars == <<previous_data>>
concurrent_vars == <<inst, call>>
service_vars == <<db_behaviour, request, response, log>>
db_vars == <<_driver, _async_driver, _initialized, drivers, db_call, task>>
convert_vars == <<conv_in, conv_out>>

\* what a step of a first transform_data call leaves alone
others == <<reuse_vars, concurrent_vars, service_vars, db_vars, convert_vars>>

vars == <<transformer_vars, others>>

\* the concurrent calls of transform_to_pxlsviz
CallIds == {"c1", "c2"}
NoInstance == [params |-> PyNone]
IdleCall == [pc |-> "idle"]

\* the tasks of the event loop that call the connection
TaskIds == {"t1", "t2"}
IdleTask == [pc |-> "idle"]

\* nothing called yet, per part of the program
ReuseIdle == previous_data = Absent
ConcurrentIdle ==
    /\ inst = [c \in CallIds |-> NoInstance]
    /\ call = [c \in CallIds |-> IdleCall]
ServiceIdle ==
    /\ db_behaviour = [kind |-> "unset"]
    /\ request = [op |-> "none"]
    /\ response = [kind |-> "none"]
    /\ log = <<>>
DbIdle ==
    /\ _driver = PyNone
    /\ _async_driver = PyNone
    /\ _initialized = FALSE
    /\ drivers = <<>>
    /\ db_call = [op |-> "none"]
    /\ task = [t \in TaskIds |-> IdleTask]
ConvertIdle ==
    /\ conv_in = Absent
    /\ conv_out = [kind |-> "none"]

OthersIdle ==
    /\ ReuseIdle
    /\ ConcurrentIdle
    /\ ServiceIdle
    /\ DbIdle
    /\ ConvertIdle

NoResult == [nodes |-> <<>>, relationships |-> <<>>]

\* GraphTransformer.__init__
Init ==
    /\ params \in { InitParams(g) : g \in ParamChoices }
    /\ source_data = PyNone
    /\ pc = "idle"
    /\ pos = <<1, 1>>
    /\ _unique_nodes = <<>>
    /\ _transformed_relationships = <<>>
    /\ _processed_rel_ids = {}
    /\ _total_rels_processed = 0
    /\ _skipped_rels = 0
    /\ result = NoResult
    /\ built_from = <<>>
    /\ OthersIdle

\* self._reset_state() without `self._processed_rel_ids = set()`
_reset_state_keeps_seen_ids ==
    /\ _unique_nodes' = <<>>
    /\ _transformed_relationships' = <<>>
    /\ _processed_rel_ids' = _processed_rel_ids
    /\ _total_rels_processed' = 0
    /\ _skipped_rels' = 0
    /\ built_from' = <<>>

_reset_state ==
    /\ _unique_nodes' = <<>>
    /\ _transformed_relationships' = <<>>
    /\ _processed_rel_ids' = {}
    /\ _total_rels_processed' = 0
    /\ _skipped_rels' = 0
    /\ built_from' = <<>>

\* transform_data on an argument that is not a list: empty graph
CallNonList ==
    /\ pc = "idle"
    /\ \E x \in Inputs(params) :
        /\ ~isinstance_list(x)
        /\ source_data' = x
    /\ _reset_state
    /\ result' = [nodes |-> <<>>, relationships |-> <<>>]
    /\ pc' = "done"
    /\ UNCHANGED <<params, pos>>
    /\ UNCHANGED others

\* transform_data on a list: reset, then enter the outer loop
CallList ==
    /\ pc = "idle"
    /\ \E x \in Inputs(params) :
        /\ isinstance_list(x)
        /\ source_data' = x
        /\ IF Iterable(x)
           THEN pc' = "loop" /\ pos' = Norm(Elements(x), 1, 1)
           ELSE pc' = "raised" /\ pos' = pos
    /\ _reset_state
    /\ UNCHANGED <<params, result>>
    /\ UNCHANGED others

Items == Elements(source_data)
InLoop == pc = "loop" /\ pos[1] <= Len(Items)
CurItem == Items[pos[1]]
CurRel == CurItem.v[pos[2]].val
RunState ==
    [un |-> _unique_nodes, tr |-> _transformed_relationships,
     ids |-> _processed_rel_ids, total |-> _total_rels_processed,
     skipped |-> _skipped_rels, raised |-> FALSE, bf |-> built_from]
CurEx == _extract_nodes_and_ids(params, CurRel)
CurOut == ProcessRel(params, RunState, CurRel, pos)

\* the run state after one loop step, and the loops advanced
Step(st) ==
    /\ _unique_nodes' = st.un
    /\ _transformed_relationships' = st.tr
    /\ _processed_rel_ids' = st.ids
    /\ _total_rels_processed' = st.total
    /\ _skipped_rels' = st.skipped
    /\ built_from' = st.bf
    /\ IF st.raised
       THEN pc' = "raised" /\ pos' = pos
       ELSE pc' = "loop" /\ pos' = Norm(Items, pos[1], pos[2] + 1)
    /\ UNCHANGED <<params, source_data, result>>
    /\ UNCHANGED others

\* the skip of a non-dict item without line 218's count
SkipNonDictItemUncounted ==
    /\ InLoop
    /\ ~IsDict(CurItem)
    /\ pos' = Norm(Items, pos[1] + 1, 1)
    /\ UNCHANGED <<params, source_data, pc, _unique_nodes,
                   _transformed_relationships, _processed_rel_ids,
                   _total_rels_processed, _skipped_rels, result, built_from>>
    /\ UNCHANGED others

\* an item of the outer list that is not a dict
SkipNonDictItem ==
    /\ InLoop
    /\ ~IsDict(CurItem)
    /\ _skipped_rels' = _skipped_rels + 1
    /\ pos' = Norm(Items, pos[1] + 1, 1)
    /\ UNCHANGED <<params, source_data, pc, _unique_nodes,
                   _transformed_relationships, _processed_rel_ids,
                   _total_rels_processed, result, built_from>>
    /\ UNCHANGED others

\* a value of an item that is not a dict
SkipNonDictValue ==
    /\ InLoop /\ IsDict(CurItem)
    /\ ~IsDict(CurRel)
    /\ Step(CurOut)

\* a relationship object without two usable nodes
SkipInvalidNodes ==
    /\ InLoop /\ IsDict(CurItem) /\ IsDict(CurRel)
    /\ ~NodesPresent(CurEx)
    /\ Step(CurOut)

\* an unhashable id reaches `in self._unique_nodes` / `in self._processed_rel_ids`
RaiseTypeError ==
    /\ InLoop /\ IsDict(CurItem) /\ IsDict(CurRel)
    /\ NodesPresent(CurEx)
    /\ CurOut.raised
    /\ Step(CurOut)

\* nodes registered, then the relationship has no valid type
SkipInvalidType ==
    /\ InLoop /\ IsDict(CurItem) /\ IsDict(CurRel)
    /\ NodesPresent(CurEx)
    /\ ~CurOut.raised
    /\ CurOut.skipped = _skipped_rels + 1
    /\ Step(CurOut)

\* nodes registered, edge appended
AddRelationship ==
    /\ InLoop /\ IsDict(CurItem) /\ IsDict(CurRel)
    /\ NodesPresent(CurEx)
    /\ ~CurOut.raised
    /\ Len(CurOut.tr) = Len(_transformed_relationships) + 1
    /\ Step(CurOut)

\* nodes registered, edge id already seen
SkipDuplicate ==
    /\ InLoop /\ IsDict(CurItem) /\ IsDict(CurRel)
    /\ NodesPresent(CurEx)
    /\ ~CurOut.raised
    /\ CurOut.skipped = _skipped_rels
    /\ CurOut.tr = _transformed_relationships
    /\ Step(CurOut)

\* both loops are over: the return statement
Return ==
    /\ pc = "loop"
    /\ pos[1] > Len(Items)
    /\ result' = [nodes |-> NodeValues(_unique_nodes),
                  relationships |-> _transformed_relationships]
    /\ pc' = "done"
    /\ UNCHANGED <<params, source_data, pos, _unique_nodes,
                   _transformed_relationships, _processed_rel_ids,
                   _total_rels_processed, _skipped_rels, built_from>>
    /\ UNCHANGED others

Next ==
    \/ CallNonList
    \/ CallList
    \/ SkipNonDictItem
    \/ SkipNonDictValue
    \/ SkipInvalidNodes
    \/ RaiseTypeError
    \/ SkipInvalidType
    \/ AddRelationship
    \/ SkipDuplicate
    \/ Return

Spec == Init /\ [][Next]_vars

\* ------------------------------------------------------------------------
\* transform_data as a function of its argument (the loops folded)
\* ------------------------------------------------------------------------
RECURSIVE RunLoop(_, _, _, _)
RunLoop(p, items, q, st) ==
    IF st.raised \/ q[1] > Len(items) THEN st
    ELSE IF ~IsDict(items[q[1]])
    THEN RunLoop(p, items, Norm(items, q[1] + 1, 1), [st EXCEPT !.skipped = @ + 1])
    ELSE RunLoop(p, items, Norm(items, q[1], q[2] + 1),
                 ProcessRel(p, st, items[q[1]].v[q[2]].val, q))

\* what the call gives its caller when the loops end in run state st
Outcome(st) ==
    [raised |-> st.raised,
     result |-> IF st.raised THEN NoResult
                ELSE [nodes |-> NodeValues(st.un), relationships |-> st.tr]]

transform_data(p, x) ==
    IF ~isinstance_list(x)
    THEN [raised |-> FALSE, result |-> [nodes |-> <<>>, relationships |-> <<>>]]
    ELSE Outcome(RunLoop(p, Elements(x), Norm(Elements(x), 1, 1), EmptyRun))

\* ------------------------------------------------------------------------
\* Vocabulary of the properties: the input as the caller sees it
\* ------------------------------------------------------------------------
\* transform_data has returned for a list argument
Returned == pc = "done" /\ source_data.t = "list"

\* positions <<i, j>> of the dict-valued entries of the dict items, and
\* their order in the traversal
RelPositions ==
    UNION { { <<i, j>> : j \in { j \in 1..Len(source_data.v[i].v) :
                                   source_data.v[i].v[j].val.t = "dict" } } :
            i \in { i \in 1..Len(source_data.v) : source_data.v[i].t = "dict" } }

RelAt(q) == source_data.v[q[1]].v[q[2]].val

Before(q, r) == q[1] < r[1] \/ (q[1] = r[1] /\ q[2] < r[2])

\* the node under tag is a mapping with an id that is neither null nor falsy
GoodNode(r, tag) ==
    /\ tag \in DOMAIN r.v
    /\ r.v[tag].t = "dict"
    /\ "id" \in DOMAIN r.v[tag].v
    /\ Truthy(r.v[tag].v["id"])

TwoValidNodes(r) ==
    GoodNode(r, params.source_node_tag) /\ GoodNode(r, params.target_node_tag)

SourceId(r) == r.v[params.source_node_tag].v["id"]
TargetId(r) == r.v[params.target_node_tag].v["id"]

ValidKind(r) ==
    /\ params.relationship_type_tag \in DOMAIN r.v
    /\ r.v[params.relationship_type_tag].t = "str"
    /\ r.v[params.relationship_type_tag].v # ""

KindOf(r) == r.v[params.relationship_type_tag]

DerivedId(r) ==
    PyStr(Format(SourceId(r)) \o "_" \o KindOf(r).v \o "_" \o Format(TargetId(r)))

ValidPositions == { q \in RelPositions : TwoValidNodes(RelAt(q)) }

\* occurrences of node ids in records with two valid nodes: <<q, 1>> is the
\* source and <<q, 2>> the target of the record at q
Occs == ValidPositions \X {1, 2}
OccNode(o) ==
    IF o[2] = 1 THEN RelAt(o[1]).v[params.source_node_tag]
    ELSE RelAt(o[1]).v[params.target_node_tag]
OccId(o) == OccNode(o).v["id"]
OccBefore(o1, o2) == Before(o1[1], o2[1]) \/ (o1[1] = o2[1] /\ o1[2] < o2[2])
FirstOcc(o) == \A o2 \in Occs : OccId(o2) = OccId(o) => ~OccBefore(o2, o)

\* the id field of an output node (None when there is none)
NodeIdOf(n) == IF n.t = "dict" /\ "id" \in DOMAIN n.v THEN n.v["id"] ELSE PyNone

Edges == result.relationships
EdgeRecord(k) == RelAt(built_from[k])

\* ------------------------------------------------------------------------
\* C1: in the returned graph there is exactly one node per distinct id that
\* occurs as source or target of a record with two valid nodes, no other
\* node, and the node of an id is the mapping of the id's first occurrence.
\* ------------------------------------------------------------------------
C1_OneNodePerIdFirstWins ==
    Returned =>
        /\ \A o \in Occs :
              Cardinality({ k \in DOMAIN result.nodes :
                              NodeIdOf(result.nodes[k]) = OccId(o) }) = 1
        /\ \A k \in DOMAIN result.nodes :
              \E o \in Occs : FirstOcc(o) /\ result.nodes[k] = OccNode(o)

\* an id occurs twice with different properties and the run has returned
C1_Witness ==
    /\ Returned
    /\ \E o1, o2 \in Occs :
          /\ OccBefore(o1, o2) /\ OccId(o1) = OccId(o2) /\ OccNode(o1) # OccNode(o2)
          /\ \E k \in DOMAIN result.nodes : result.nodes[k] = OccNode(o1)

\* ------------------------------------------------------------------------
\* C2: the returned relationships hold at most one edge per derived id
\* (sourceId_kind_targetId of the record), and the edge kept for a derived
\* id is built from the first record of the input that derives it.
\* ------------------------------------------------------------------------
C2_OneEdgePerDerivedId ==
    Returned =>
        /\ Len(built_from) = Len(Edges)
        /\ \A k, l \in DOMAIN Edges :
              k # l => DerivedId(EdgeRecord(k)) # DerivedId(EdgeRecord(l))
        /\ \A k \in DOMAIN Edges :
              \A q \in ValidPositions :
                 (ValidKind(RelAt(q)) /\ DerivedId(RelAt(q)) = DerivedId(EdgeRecord(k)))
                     => ~Before(q, built_from[k])

\* ------------------------------------------------------------------------
\* C3: every returned edge has id = sourceId_kind_targetId of the record
\* it was built from.
\* ------------------------------------------------------------------------
C3_EdgeIdIsDerived ==
    Returned =>
        \A k \in DOMAIN Edges : Edges[k].v["id"] = DerivedId(EdgeRecord(k))

\* ------------------------------------------------------------------------
\* C4: every returned edge has source and target equal to the ids of its
\* record's nodes and type equal to the kind under the configured type tag.
\* ------------------------------------------------------------------------
C4_EdgeEndsAndType ==
    Returned =>
        \A k \in DOMAIN Edges :
            /\ Edges[k].v["source"] = SourceId(EdgeRecord(k))
            /\ Edges[k].v["target"] = TargetId(EdgeRecord(k))
            /\ Edges[k].v["type"] = KindOf(EdgeRecord(k))

\* ------------------------------------------------------------------------
\* C5: which properties of the record an edge carries.
\* ------------------------------------------------------------------------
BuiltFields == {"id", "source", "target", "type"}

NodeTagsAndFixed ==
    {params.source_node_tag, params.target_node_tag}
        \cup {"source", "target", "start", "end"}

\* C5 as stated: the kind tag field is excluded as well; an excluded key is
\* in the edge only as one of the four built fields, every other property
\* of the record is in the edge with the record's value.
C5_AsStated ==
    Returned =>
        \A k \in DOMAIN Edges :
            LET excl == NodeTagsAndFixed \cup {params.relationship_type_tag}
                r == EdgeRecord(k)
            IN  /\ \A key \in DOMAIN r.v \ excl :
                      key \in DOMAIN Edges[k].v /\ Edges[k].v[key] = r.v[key]
                /\ \A key \in excl \cap DOMAIN Edges[k].v : key \in BuiltFields

\* C5 (amended): an edge carries every property of its record except the
\* fields named by the source and target tags and the fixed set {source,
\* target, start, end}; the kind tag field is not among the exclusions
\* and is copied like any other property; the edge has no further field
\* but the four built ones, and its source and target are the node ids,
\* not the record's properties.
C5_CopiedProperties ==
    Returned =>
        \A k \in DOMAIN Edges :
            LET r == EdgeRecord(k)
            IN  /\ \A key \in DOMAIN r.v \ NodeTagsAndFixed :
                      key \in DOMAIN Edges[k].v /\ Edges[k].v[key] = r.v[key]
                /\ DOMAIN Edges[k].v = BuiltFields \cup (DOMAIN r.v \ NodeTagsAndFixed)
                /\ Edges[k].v["source"] = SourceId(r)
                /\ Edges[k].v["target"] = TargetId(r)

\* an edge was built from a record that has excluded stray properties, an
\* ordinary one, and a kind tag other than "type"
C5_Witness ==
    /\ Returned
    /\ params.relationship_type_tag # "type"
    /\ \E k \in DOMAIN Edges :
          /\ {"start", "source", "weight"} \subseteq DOMAIN EdgeRecord(k).v
          /\ params.relationship_type_tag \in DOMAIN Edges[k].v

\* ------------------------------------------------------------------------
\* C6: a record with two valid nodes whose kind is missing, empty or not a
\* string yields no edge, and both of its node ids are in the returned nodes.
\* ------------------------------------------------------------------------
C6_NodesOfBadKindRecordStay ==
    Returned =>
        \A q \in ValidPositions :
            ~ValidKind(RelAt(q)) =>
                /\ \A k \in DOMAIN built_from : built_from[k] # q
                /\ Len(Edges) = Len(built_from)
                /\ \E n \in DOMAIN result.nodes :
                      NodeIdOf(result.nodes[n]) = SourceId(RelAt(q))
                /\ \E n \in DOMAIN result.nodes :
                      NodeIdOf(result.nodes[n]) = TargetId(RelAt(q))

\* a returned run whose only record with valid nodes has an invalid kind:
\* its nodes are in the result and there is no edge
C6_Witness ==
    /\ Returned
    /\ ValidPositions # {}
    /\ \A q \in ValidPositions : ~ValidKind(RelAt(q))
    /\ Len(result.nodes) = 2
    /\ Edges = <<>>

\* ------------------------------------------------------------------------
\* C7: the step taken on a record whose source or target is absent, not a
\* mapping, without id, with a null id or with a falsy id leaves nodes and
\* edges as they are and adds exactly one to the skipped counter.
\* ------------------------------------------------------------------------
AtRecord ==
    /\ pc = "loop" /\ source_data.t = "list"
    /\ pos[1] <= Len(source_data.v)
    /\ pos \in RelPositions

C7_InvalidNodeSkipsRecord ==
    [][ (AtRecord /\ ~TwoValidNodes(RelAt(pos)))
          => /\ _unique_nodes' = _unique_nodes
             /\ _transformed_relationships' = _transformed_relationships
             /\ _processed_rel_ids' = _processed_rel_ids
             /\ _skipped_rels' = _skipped_rels + 1
             /\ pc' = "loop" ]_vars

\* a record with one valid and one invalid node was skipped: nothing is
\* registered and the counter is one
C7_Witness ==
    /\ Returned
    /\ \E q \in RelPositions :
          /\ ~TwoValidNodes(RelAt(q))
          /\ \/ GoodNode(RelAt(q), params.source_node_tag)
             \/ GoodNode(RelAt(q), params.target_node_tag)
    /\ RelPositions \cap ValidPositions = {}
    /\ _skipped_rels = Cardinality(RelPositions)
    /\ result.nodes = <<>>

\* ------------------------------------------------------------------------
\* C8: for an argument that is not a list the call returns the empty graph
\* and does not raise.
\* ------------------------------------------------------------------------
C8_NonListGivesEmptyGraph ==
    (pc # "idle" /\ source_data.t # "list") =>
        /\ pc = "done"
        /\ result = [nodes |-> <<>>, relationships |-> <<>>]

\* the call has returned for a mapping
C8_Witness ==
    pc = "done" /\ source_data.t = "dict" /\ result.nodes = <<>>

\* ------------------------------------------------------------------------
\* C9: for a list argument the call never raises, and it returns what it
\* returns for the list without its non-mapping items and without the
\* non-mapping values inside its items.
\* ------------------------------------------------------------------------
IsDictPair(pr) == pr.val.t = "dict"

WithoutMalformed(x) ==
    LET kept == SelectSeq(x.v, IsDict)
    IN  PyList([n \in 1..Len(kept) |-> PyDict(SelectSeq(kept[n].v, IsDictPair))])

C9_SameAsCleanedInput ==
    Returned => result = transform_data(params, WithoutMalformed(source_data)).result

C9_MalformedNeverAborts ==
    /\ source_data.t = "list" => pc # "raised"
    /\ C9_SameAsCleanedInput

\* ------------------------------------------------------------------------
\* C10: returned nodes are in the order of the first occurrences of their
\* ids in the traversal (items, then values, source before target) and
\* returned edges in the order in which their records were met.
\* ------------------------------------------------------------------------
C10_FirstSeenOrder ==
    Returned =>
        /\ \A k, l \in DOMAIN result.nodes :
              k < l =>
                \E o1, o2 \in Occs :
                   /\ FirstOcc(o1) /\ OccId(o1) = NodeIdOf(result.nodes[k])
                   /\ FirstOcc(o2) /\ OccId(o2) = NodeIdOf(result.nodes[l])
                   /\ OccBefore(o1, o2)
        /\ Len(built_from) = Len(Edges)
        /\ \A k \in DOMAIN Edges :
              LET r == EdgeRecord(k)
              IN  Edges[k] = _transform_single_relationship(
                                 params, r, SourceId(r), TargetId(r))
        /\ \A k, l \in DOMAIN Edges : k < l => Before(built_from[k], built_from[l])

\* three nodes and two edges returned from two records
C10_Witness ==
    /\ Returned
    /\ Len(result.nodes) >= 3
    /\ Len(Edges) >= 2

\* ------------------------------------------------------------------------
\* A second transform_data call on the same GraphTransformer instance
\* ------------------------------------------------------------------------
Item(vals) == PyDict([n \in 1..Len(vals) |-> [key |-> RelKey(n), val |-> vals[n]]])

\* arguments that leave every kind of run state behind: an edge and a
\* duplicate, skipped items and values, a rejected kind, a run that raises
\* midway, an empty list and an argument that is not a list
SmallInputs(p) ==
    LET K == PyStr("KNOWS")
        ab == Rel(p, NodeA, NodeB, K, NoExtra)
        a2b == Rel(p, NodeA2, NodeB, K, NoExtra)
    IN  { PyList(<<Item(<<ab, a2b>>)>>),
          PyList(<<PyStr("oops"), Item(<<PyInt(7), Rel(p, Absent, NodeB, K, NoExtra)>>)>>),
          PyList(<<Item(<<Rel(p, NodeB, NodeA2, Absent, NoExtra)>>),
                   Item(<<Rel(p, NodeB, NodeA2, PyStr("LIKES"), NoExtra)>>)>>),
          PyList(<<Item(<<ab>>), Item(<<Rel(p, NodeListId, NodeB, K, NoExtra)>>)>>),
          PyList(<<Item(<<a2b>>)>>),
          PyList(<<>>),
          PyNone }

\* the start of transform_data: reset, the list check, the loops entered
Enter(x) ==
    /\ source_data' = x
    /\ IF ~isinstance_list(x)
       THEN /\ result' = [nodes |-> <<>>, relationships |-> <<>>]
            /\ pc' = "done"
            /\ pos' = <<1, 1>>
       ELSE /\ result' = NoResult
            /\ IF Iterable(x)
               THEN pc' = "loop" /\ pos' = Norm(Elements(x), 1, 1)
               ELSE pc' = "raised" /\ pos' = <<1, 1>>

\* the first call on a new instance
CallFirst ==
    /\ pc = "idle"
    /\ \E x \in SmallInputs(params) : Enter(x)
    /\ _reset_state
    /\ UNCHANGED <<params, others>>

\* the next call on the instance, after the first has returned or raised
CallAgain ==
    /\ pc \in {"done", "raised"}
    /\ previous_data = Absent
    /\ \E x \in SmallInputs(params) : Enter(x)
    /\ _reset_state
    /\ previous_data' = source_data
    /\ UNCHANGED <<params, concurrent_vars, service_vars, db_vars, convert_vars>>

NextReuse ==
    \/ CallFirst
    \/ CallAgain
    \/ SkipNonDictItem
    \/ SkipNonDictValue
    \/ SkipInvalidNodes
    \/ RaiseTypeError
    \/ SkipInvalidType
    \/ AddRelationship
    \/ SkipDuplicate
    \/ Return

SpecReuse == Init /\ [][NextReuse]_vars

\* ------------------------------------------------------------------------
\* C11: a second call on the same instance returns (or raises) exactly as a
\* call with the same argument on a freshly constructed instance with the
\* same configuration does.
\* ------------------------------------------------------------------------
SecondCall == previous_data # Absent

C11_SecondCallAsOnFreshInstance ==
    SecondCall =>
        /\ pc = "done" =>
              /\ ~transform_data(params, source_data).raised
              /\ result = transform_data(params, source_data).result
        /\ pc = "raised" => transform_data(params, source_data).raised

\* the same one-record list was passed twice and the second call returned
\* its edge although the first call had built the same edge id
C11_Witness ==
    /\ SecondCall
    /\ pc = "done"
    /\ previous_data = source_data
    /\ Len(result.relationships) = 1
    /\ Len(result.nodes) = 2

\* ------------------------------------------------------------------------
\* TransformKGOutPxLSVizService.transform_to_pxlsviz, several calls in flight
\* ------------------------------------------------------------------------
\* no GraphTransformer of the single-instance specifications is in use
TransformerIdle ==
    /\ params = InitParams(PyNone)
    /\ source_data = PyNone
    /\ pc = "idle"
    /\ pos = <<1, 1>>
    /\ _unique_nodes = <<>>
    /\ _transformed_relationships = <<>>
    /\ _processed_rel_ids = {}
    /\ _total_rels_processed = 0
    /\ _skipped_rels = 0
    /\ result = NoResult
    /\ built_from = <<>>

InitConcurrent ==
    /\ TransformerIdle
    /\ ReuseIdle
    /\ ConcurrentIdle
    /\ ServiceIdle
    /\ DbIdle
    /\ ConvertIdle

\* one module-level transformer used by every call
one_shared_transformer(c) == "c1"

\* `transformer = GraphTransformer(params)`: the instance call c works on is
\* the one it constructed
transformer_of(c) == c

\* another call is between its first and its last loop step
OtherInFlight(c) == \E d \in CallIds \ {c} : call[d].pc = "loop"

\* the call starts: the instance is constructed and transform_data entered
Begin(c) ==
    /\ call[c].pc = "idle"
    /\ \E given \in ParamChoices :
         \E x \in SmallInputs(InitParams(given)) :
            LET entered == IF ~isinstance_list(x) THEN "done"
                           ELSE IF Iterable(x) THEN "loop" ELSE "raised"
            IN  /\ inst' = [inst EXCEPT ![transformer_of(c)] =
                               [params |-> InitParams(given), st |-> EmptyRun]]
                /\ call' = [call EXCEPT ![c] =
                               [pc |-> entered,
                                input_json |-> x,
                                params |-> given,
                                pos |-> IF entered = "loop"
                                        THEN Norm(Elements(x), 1, 1) ELSE <<1, 1>>,
                                result |-> IF entered = "done"
                                           THEN [nodes |-> <<>>, relationships |-> <<>>]
                                           ELSE NoResult,
                                overlapped |-> FALSE]]
    /\ UNCHANGED <<transformer_vars, reuse_vars, service_vars, db_vars, convert_vars>>

\* one iteration of the loops of transform_data in call c
StepCall(c) ==
    /\ call[c].pc = "loop"
    /\ call[c].pos[1] <= Len(Elements(call[c].input_json))
    /\ LET me == inst[transformer_of(c)]
           items == Elements(call[c].input_json)
           q == call[c].pos
           item == items[q[1]]
           st == IF ~IsDict(item)
                 THEN [me.st EXCEPT !.skipped = @ + 1]
                 ELSE ProcessRel(me.params, me.st, item.v[q[2]].val, q)
           nq == IF ~IsDict(item)
                 THEN Norm(items, q[1] + 1, 1)
                 ELSE Norm(items, q[1], q[2] + 1)
       IN  /\ inst' = [inst EXCEPT ![transformer_of(c)].st = st]
           /\ call' = [call EXCEPT ![c].pc = IF st.raised THEN "raised" ELSE "loop",
                                   ![c].pos = IF st.raised THEN q ELSE nq,
                                   ![c].overlapped = @ \/ OtherInFlight(c)]
    /\ UNCHANGED <<transformer_vars, reuse_vars, service_vars, db_vars, convert_vars>>

\* the return statement of transform_data and of transform_to_pxlsviz
Finish(c) ==
    /\ call[c].pc = "loop"
    /\ call[c].pos[1] > Len(Elements(call[c].input_json))
    /\ LET me == inst[transformer_of(c)]
       IN  call' = [call EXCEPT ![c].pc = "done",
                                ![c].result = [nodes |-> NodeValues(me.st.un),
                                               relationships |-> me.st.tr],
                                ![c].overlapped = @ \/ OtherInFlight(c)]
    /\ UNCHANGED inst
    /\ UNCHANGED <<transformer_vars, reuse_vars, service_vars, db_vars, convert_vars>>

NextConcurrent ==
    \/ \E c \in CallIds : Begin(c)
    \/ \E c \in CallIds : StepCall(c)
    \/ \E c \in CallIds : Finish(c)

SpecConcurrent == InitConcurrent /\ [][NextConcurrent]_vars

\* ------------------------------------------------------------------------
\* C12: under every interleaving of the calls in flight, each call returns
\* (or raises) as transform_data does when run alone on the call's input
\* and parameters.
\* ------------------------------------------------------------------------
C12_EachCallAsAlone ==
    \A c \in CallIds :
        /\ call[c].pc = "done" =>
              /\ ~transform_data(InitParams(call[c].params), call[c].input_json).raised
              /\ call[c].result =
                    transform_data(InitParams(call[c].params), call[c].input_json).result
        /\ call[c].pc = "raised" =>
              transform_data(InitParams(call[c].params), call[c].input_json).raised

\* both calls took steps while the other was inside its loops, and both
\* returned an edge
C12_Witness ==
    \A c \in CallIds :
        /\ call[c].pc = "done"
        /\ call[c].overlapped
        /\ Len(call[c].result.relationships) >= 1

\* ------------------------------------------------------------------------
\* The query services: QueryService and ReadKGService
\* ------------------------------------------------------------------------
EmptyDict == PyDict(NoExtra)

\* an exception object and str(e)
Exc(type, msg) == [type |-> type, msg |-> msg]
ExcStr(e) == e.msg

\* the singleton connection and the coroutine object a call of an
\* `async def` returns before it is awaited
TheConnection == [t |-> "Neo4jConnection", v |-> "singleton"]
Coroutine(value) == [t |-> "coroutine", v |-> value]
Await(co) == co.v

\* get_db(): an `async def`, so calling it gives a coroutine
get_db == Coroutine(TheConnection)

\* obj.name exists
HasAttr(obj, name) == obj.t = "Neo4jConnection" /\ name = "execute_query"

AttributeError(obj, name) ==
    Exc("AttributeError", "'" \o obj.t \o "' object has no attribute '" \o name \o "'")

\* the pydantic model QueryResponse; fields not given are None
QueryResponse(status, count, results, error, metadata) ==
    [status |-> status, count |-> count, results |-> results,
     error |-> error, metadata |-> metadata]

LogRecord(level, msg) == [level |-> level, msg |-> msg]

\* Neo4jConnection.execute_query as its callers see it: it returns the
\* records or logs and re-raises the failure
execute_query_outcome(behaviour) ==
    IF behaviour.kind = "records"
    THEN [kind |-> "returned", value |-> behaviour.records, log |-> <<>>]
    ELSE [kind |-> "raised", exc |-> behaviour.exc,
          log |-> <<LogRecord("error", "Error executing query: " \o ExcStr(behaviour.exc))>>]

\* QueryService.execute_cypher_query
QueryService_execute_cypher_query(query, qparams, behaviour, request_id) ==
    LET started == <<LogRecord("info", "Executing query: " \o query)>>
        db == get_db
        reached == HasAttr(db, "execute_query")
        out == IF reached
               THEN execute_query_outcome(behaviour)
               ELSE [kind |-> "raised", exc |-> AttributeError(db, "execute_query"),
                     log |-> <<>>]
        metadata == PyDict([query |-> PyStr(query),
                            parameters |-> IF Truthy(qparams) THEN qparams ELSE EmptyDict,
                            request_id |-> PyStr(request_id)])
    IN  IF out.kind = "returned"
        THEN [kind |-> "returned",
              value |-> QueryResponse("success", PyInt(Len(out.value)),
                                      PyList(out.value), PyNone, metadata),
              log |-> started \o out.log \o
                      <<LogRecord("info", "Query executed successfully. Found "
                                          \o NatStr(Len(out.value)) \o " results.")>>]
        ELSE LET error_message == "Error executing query: " \o ExcStr(out.exc)
             IN  [kind |-> "returned",
                  value |-> QueryResponse("error", PyNone, PyNone,
                                          PyStr(error_message), metadata),
                  log |-> started \o out.log \o <<LogRecord("error", error_message)>>]

\* ReadKGService.execute_cypher_query with `except: return <error envelope>`
ReadKGService_envelope_on_error(query, qparams, behaviour, request_id) ==
    LET out == execute_query_outcome(behaviour)
        metadata == PyDict([request_id |-> PyStr(request_id),
                            query |-> PyStr(query),
                            parameters |-> qparams])
    IN  [kind |-> "returned",
         value |-> IF out.kind = "returned"
                   THEN QueryResponse("success", PyInt(Len(out.value)),
                                      PyList(out.value), PyNone, metadata)
                   ELSE QueryResponse("error", PyNone, PyNone,
                                      PyStr("Error executing query: " \o ExcStr(out.exc)),
                                      metadata),
         log |-> <<LogRecord("info", "Executing query.")>> \o out.log]

\* ReadKGService.execute_cypher_query
ReadKGService_execute_cypher_query(query, qparams, behaviour, request_id) ==
    LET started == <<LogRecord("info", "Executing query.")>>
        db == Await(get_db)
        reached == HasAttr(db, "execute_query")
        out == IF reached
               THEN execute_query_outcome(behaviour)
               ELSE [kind |-> "raised", exc |-> AttributeError(db, "execute_query"),
                     log |-> <<>>]
        metadata == PyDict([request_id |-> PyStr(request_id),
                            query |-> PyStr(query),
                            parameters |-> qparams])
    IN  IF out.kind = "returned"
        THEN [kind |-> "returned",
              value |-> QueryResponse("success", PyInt(Len(out.value)),
                                      PyList(out.value), PyNone, metadata),
              log |-> started \o out.log \o
                      <<LogRecord("info", "Query executed successfully.")>>]
        ELSE [kind |-> "raised",
              exc |-> out.exc,
              log |-> started \o out.log \o
                      <<LogRecord("error", "Error executing query: " \o ExcStr(out.exc))>>]

\* ------------------------------------------------------------------------
\* The routes and the application
\* ------------------------------------------------------------------------
Http(status, body) == [kind |-> "http", status |-> status, body |-> body]

\* raise HTTPException(status_code, detail) as the client sees it
HTTPException(status, detail) == [kind |-> "http", status |-> status, detail |-> detail]

\* str(HTTPException(...)): "status: detail" with a Starlette whose
\* HTTPException defines __str__, the text of an Exception built without
\* positional arguments with one that does not
StarletteBuilds == {"with __str__", "without __str__"}
HTTPException_str(status, detail, build) ==
    IF build = "with __str__" THEN NatStr(status) \o ": " \o detail ELSE ""

\* the request id set by RequestContextMiddleware.dispatch, and the default
\* of the context variable outside a request
middleware_request_id == "uuid4"
no_request_id == ""

\* the route after the service call: the envelope, or HTTP 500 if the
\* service raised or the route raised HTTPException(400) inside its own try
read_route_response(svc, build) ==
    LET received == <<LogRecord("debug", "Received raw request body")>>
        failed == svc.kind = "raised" \/ svc.value.status = "error"
        text == IF svc.kind = "raised" THEN ExcStr(svc.exc)
                ELSE HTTPException_str(400, svc.value.error.v, build)
        error_message == "Error processing request: " \o text
    IN  IF failed
        THEN [response |-> HTTPException(500, error_message),
              log |-> received \o svc.log \o <<LogRecord("error", error_message)>>]
        ELSE [response |-> Http(200, svc.value),
              log |-> received \o svc.log]

\* POST /api/v1/read: query_routes.execute_query
execute_query(query_request, behaviour, request_id, build) ==
    read_route_response(
        ReadKGService_execute_cypher_query(
            query_request.query, query_request.parameters, behaviour, request_id),
        build)

\* transform_to_pxlsviz after transformer.transform_data: return the graph,
\* or log and re-raise
logged_or_raised(out) ==
    IF out.raised
    THEN [kind |-> "raised", exc |-> Exc("TypeError", "unhashable type: 'list'"),
          log |-> <<LogRecord("error",
                      "Error executing transformation to PxLSViz format: "
                      \o "unhashable type: 'list'")>>]
    ELSE [kind |-> "returned", value |-> out.result,
          log |-> <<LogRecord("info", "Transformation executed successfully.")>>]

\* TransformKGOutPxLSVizService.transform_to_pxlsviz
transform_to_pxlsviz(input_json, given) ==
    logged_or_raised(transform_data(InitParams(given), input_json))

PyFloat(text) == [t |-> "float", v |-> text]

\* the literal of transform_routes.py, lines 46-85
tmp ==
    [nodes |->
       << PyDict([id |-> PyStr("1"), type |-> PyStr("gene"), name |-> PyStr("TP53")]),
          PyDict([id |-> PyStr("2"), type |-> PyStr("disease"), name |-> PyStr("NSCLC")]),
          PyDict([id |-> PyStr("3"), type |-> PyStr("drug"), name |-> PyStr("Gefitinib")]),
          PyDict([id |-> PyStr("4"), type |-> PyStr("pathway"),
                  name |-> PyStr("MAPK Signaling")]) >>,
     relationships |->
       << PyDict([id |-> PyStr("1"), source |-> PyStr("1"), target |-> PyStr("2"),
                  relation |-> PyStr("contributes_to_or_causes"),
                  weight |-> PyInt(3),
                  evolution |-> PyDict("2005" :> PyFloat("0.8") @@ "2010" :> PyFloat("0.9")
                                       @@ "2015" :> PyInt(1) @@ "2020" :> PyInt(2)
                                       @@ "2025" :> PyInt(3))]),
          PyDict([id |-> PyStr("2"), source |-> PyStr("3"), target |-> PyStr("1"),
                  relation |-> PyStr("targets"),
                  weight |-> PyFloat("0.95"),
                  evolution |-> PyDict("2015" :> PyFloat("0.9")
                                       @@ "2025" :> PyFloat("0.95"))]),
          PyDict([id |-> PyStr("3"), source |-> PyStr("1"), target |-> PyStr("4"),
                  relation |-> PyStr("participates_in"),
                  weight |-> PyFloat("0.85"),
                  evolution |-> PyDict("2005" :> PyFloat("0.8") @@ "2015" :> PyFloat("0.9")
                                       @@ "2025" :> PyFloat("0.95"))]) >>]

\* the route after the service call: the literal, or HTTP 500 if it raised
transform_route_response(svc) ==
    LET received == <<LogRecord("debug", "Received raw request body for transformation")>>
    IN  IF svc.kind = "raised"
        THEN LET error_message == "Error transforming data: " \o ExcStr(svc.exc)
             IN  [response |-> HTTPException(500, error_message),
                  log |-> received \o svc.log \o <<LogRecord("error", error_message)>>]
        ELSE [response |-> Http(200, tmp),
              log |-> received \o svc.log]

\* POST /api/v1/transform/pxlsviz: transform_routes.transform_to_pxlsviz
transform_to_pxlsviz_route(transform_request, request_id) ==
    transform_route_response(
        transform_to_pxlsviz(transform_request.input_json, transform_request.parameters))

\* the routers and what create_app() registers
query_router == {"POST /api/v1/read"}
transform_router == {"POST /api/v1/transform/pxlsviz"}
included_routers == {query_router}
app_routes == UNION included_routers \cup {"GET /health"}

\* RequestContextMiddleware.dispatch around the handler's outcome
dispatch(handled) ==
    [response |-> handled.response,
     log |-> <<LogRecord("info", "Request started")>> \o handled.log
             \o <<LogRecord("info", "Request completed")>>]

\* the application answering a request
app(req, behaviour, build) ==
    dispatch(IF req.op \notin app_routes
             THEN [response |-> HTTPException(404, "Not Found"), log |-> <<>>]
             ELSE IF req.op \in query_router
             THEN execute_query(req, behaviour, middleware_request_id, build)
             ELSE IF req.op \in transform_router
             THEN transform_to_pxlsviz_route(req, middleware_request_id)
             ELSE [response |-> Http(200, PyDict([status |-> PyStr("healthy")])),
                   log |-> <<>>])

\* ------------------------------------------------------------------------
\* Calls of the services and requests to the application
\* ------------------------------------------------------------------------
Record1 == PyDict([n |-> PyDict([name |-> PyStr("TP53")])])
Record2 == PyDict([n |-> PyDict([name |-> PyStr("NSCLC")])])

\* what the database does with a query: it answers with records or fails
DbBehaviours ==
    { [kind |-> "records", records |-> rs] :
        rs \in {<<>>, <<Record1>>, <<Record1, Record2>>} }
    \cup
    { [kind |-> "raises", exc |-> e] :
        e \in { Exc("ServiceUnavailable", "Unable to retrieve routing information"),
                Exc("CypherSyntaxError", "Invalid input 'MATCH'") } }

Queries == {"MATCH (n) RETURN n", "RETURN 1"}

\* `params: dict = None` of the services; pydantic gives the route a dict
ServiceParams == {PyNone, EmptyDict, PyDict([name |-> PyStr("TP53")])}
RequestParams == ServiceParams \ {PyNone}

TransformParams ==
    {EmptyDict, PyDict([source_node_tag |-> "src", relationship_type_tag |-> "kind"])}

\* bodies PxLSVizTransformRequest accepts: a list of dicts of dicts
ValidBodies(p) ==
    { x \in SmallInputs(p) :
        /\ x.t = "list"
        /\ \A i \in 1..Len(x.v) :
              /\ x.v[i].t = "dict"
              /\ \A j \in 1..Len(x.v[i].v) : x.v[i].v[j].val.t = "dict" }

InitService ==
    /\ TransformerIdle
    /\ ReuseIdle
    /\ ConcurrentIdle
    /\ DbIdle
    /\ ConvertIdle
    /\ db_behaviour \in DbBehaviours
    /\ request = [op |-> "none"]
    /\ response = [kind |-> "none"]
    /\ log = <<>>

ServiceFrame ==
    UNCHANGED <<db_behaviour, transformer_vars, reuse_vars, concurrent_vars,
                db_vars, convert_vars>>

\* a caller awaits QueryService.execute_cypher_query(query, params)
CallQueryService ==
    /\ \E query \in Queries, qparams \in ServiceParams :
         LET out == QueryService_execute_cypher_query(
                        query, qparams, db_behaviour, no_request_id)
         IN  /\ request' = [op |-> "QueryService.execute_cypher_query",
                            query |-> query, parameters |-> qparams]
             /\ response' = [kind |-> out.kind, value |-> out.value]
             /\ log' = out.log
    /\ ServiceFrame

\* a caller awaits ReadKGService.execute_cypher_query(query, params)
CallReadKGService ==
    /\ \E query \in Queries, qparams \in ServiceParams :
         LET out == ReadKGService_execute_cypher_query(
                        query, qparams, db_behaviour, no_request_id)
         IN  /\ request' = [op |-> "ReadKGService.execute_cypher_query",
                            query |-> query, parameters |-> qparams]
             /\ response' = IF out.kind = "raised"
                            THEN [kind |-> "raised", exc |-> out.exc]
                            ELSE [kind |-> "returned", value |-> out.value]
             /\ log' = out.log
    /\ ServiceFrame

\* a client sends POST /api/v1/read {query, parameters}
PostRead ==
    /\ \E query \in Queries, qparams \in RequestParams, build \in StarletteBuilds :
         LET req == [op |-> "POST /api/v1/read", query |-> query, parameters |-> qparams]
             out == app(req, db_behaviour, build)
         IN  /\ request' = req
             /\ response' = out.response
             /\ log' = out.log
    /\ ServiceFrame

\* a client sends POST /api/v1/transform/pxlsviz {input_json, parameters}
PostTransform ==
    /\ \E given \in TransformParams, build \in StarletteBuilds :
         \E x \in ValidBodies(InitParams(given)) :
            LET req == [op |-> "POST /api/v1/transform/pxlsviz",
                        input_json |-> x, parameters |-> given]
                out == app(req, db_behaviour, build)
            IN  /\ request' = req
                /\ response' = out.response
                /\ log' = out.log
    /\ ServiceFrame

\* the route function of transform_routes.py called with a validated body
CallTransformRoute ==
    /\ \E given \in TransformParams :
         \E x \in ValidBodies(InitParams(given)) :
            LET req == [op |-> "transform_routes.transform_to_pxlsviz",
                        input_json |-> x, parameters |-> given]
                out == transform_to_pxlsviz_route(req, no_request_id)
            IN  /\ request' = req
                /\ response' = out.response
                /\ log' = out.log
    /\ ServiceFrame

\* a client sends GET /health
GetHealth ==
    /\ \E build \in StarletteBuilds :
         LET req == [op |-> "GET /health"]
             out == app(req, db_behaviour, build)
         IN  /\ request' = req
             /\ response' = out.response
             /\ log' = out.log
    /\ ServiceFrame

\* the classes with the interface the read route calls:
\* `await <service>.execute_cypher_query(query, parameters)`
ReadServices == {"ReadKGService", "QueryService"}

execute_cypher_query_of(service, query, qparams, behaviour, request_id) ==
    IF service = "ReadKGService"
    THEN ReadKGService_execute_cypher_query(query, qparams, behaviour, request_id)
    ELSE QueryService_execute_cypher_query(query, qparams, behaviour, request_id)

\* what the service gave the route, without its log
ServiceResult(svc) ==
    IF svc.kind = "raised" THEN [kind |-> "raised", exc |-> svc.exc]
    ELSE [kind |-> "returned", value |-> svc.value]

ReadRouteCalled(service, query, qparams, svc, out) ==
    /\ request' = [op |-> "query_routes.execute_query", service |-> service,
                   query |-> query, parameters |-> qparams,
                   service_result |-> ServiceResult(svc)]
    /\ response' = out.response
    /\ log' = out.log

ReadRouteWith(service, query, qparams, svc, build) ==
    ReadRouteCalled(service, query, qparams, svc, read_route_response(svc, build))

\* the route function of query_routes.py called with a validated body, the
\* name ReadKGService bound to ReadKGService or to a class of the same
\* interface
CallReadRoute ==
    /\ \E service \in ReadServices, query \in Queries, qparams \in RequestParams,
          build \in StarletteBuilds :
         ReadRouteWith(service, query, qparams,
                       execute_cypher_query_of(service, query, qparams,
                                               db_behaviour, no_request_id),
                       build)
    /\ ServiceFrame

NextService ==
    \/ CallQueryService
    \/ CallReadKGService
    \/ PostRead
    \/ PostTransform
    \/ CallTransformRoute
    \/ GetHealth
    \/ CallReadRoute

SpecService == InitService /\ [][NextService]_vars

\* ------------------------------------------------------------------------
\* Vocabulary of the claims about the services and the routes
\* ------------------------------------------------------------------------
\* needle occurs in hay
Contains(hay, needle) ==
    \E i \in 1..(Len(hay) + 1) :
        /\ i + Len(needle) - 1 <= Len(hay)
        /\ SubSeq(hay, i, i + Len(needle) - 1) = needle

DbAnswers == db_behaviour.kind = "records"
DbFails == db_behaviour.kind = "raises"
FailureText == db_behaviour.exc.msg

AskedQueryService == request.op = "QueryService.execute_cypher_query"
AskedReadKGService == request.op = "ReadKGService.execute_cypher_query"
AskedRead == request.op = "POST /api/v1/read"
AskedTransform == request.op = "POST /api/v1/transform/pxlsviz"

GotEnvelope(status) == response.kind = "returned" /\ response.value.status = status

\* the envelope's metadata holds the query and the parameters of the call
\* (no parameters given: the empty mapping or None)
MetadataOfCall ==
    /\ response.value.metadata.v["query"] = PyStr(request.query)
    /\ \/ response.value.metadata.v["parameters"] = request.parameters
       \/ /\ request.parameters = PyNone
          /\ response.value.metadata.v["parameters"] = PyDict(<<>>)

LoggedError(text) ==
    \E n \in 1..Len(log) : log[n].level = "error" /\ Contains(log[n].msg, text)

\* ------------------------------------------------------------------------
\* C13: when the database fails, QueryService.execute_cypher_query returns
\* an envelope with status "error", an error message containing the failure
\* text and metadata holding the query and the parameters, and the failure
\* is logged; nothing is raised.
\* ------------------------------------------------------------------------
C13_ErrorEnvelopeCarriesFailure ==
    (AskedQueryService /\ DbFails) =>
        /\ GotEnvelope("error")
        /\ response.value.error.t = "str"
        /\ Contains(response.value.error.v, FailureText)
        /\ MetadataOfCall
        /\ LoggedError(FailureText)

\* ------------------------------------------------------------------------
\* C14: when the database answers with N records, execute_cypher_query of
\* QueryService and of ReadKGService returns an envelope with status
\* "success", count N, those records as results, and metadata holding the
\* query and the parameters.
\* ------------------------------------------------------------------------
SuccessEnvelopeOfAnswer ==
    /\ GotEnvelope("success")
    /\ response.value.count = PyInt(Len(db_behaviour.records))
    /\ response.value.results = PyList(db_behaviour.records)
    /\ MetadataOfCall

C14_SuccessEnvelope ==
    ((AskedQueryService \/ AskedReadKGService) /\ DbAnswers) => SuccessEnvelopeOfAnswer

\* the half of C14 about ReadKGService
C14_ReadKGServiceHalf ==
    (AskedReadKGService /\ DbAnswers) => SuccessEnvelopeOfAnswer

\* ------------------------------------------------------------------------
\* C15: when the database fails, ReadKGService.execute_cypher_query logs
\* the failure and raises it to its caller; it never returns an envelope
\* with status "error"; and POST /api/v1/read answers the raised failure
\* with HTTP 500 and a detail containing the failure text.
\* ------------------------------------------------------------------------
C15_FailurePropagates ==
    /\ (AskedReadKGService /\ DbFails) =>
          /\ response.kind = "raised"
          /\ response.exc = db_behaviour.exc
          /\ LoggedError(FailureText)
    /\ AskedReadKGService => ~GotEnvelope("error")
    /\ (AskedRead /\ DbFails) =>
          /\ response.kind = "http"
          /\ response.status = 500
          /\ Contains(response.detail, FailureText)

\* the route has answered a failing database with HTTP 500
C15_Witness ==
    /\ AskedRead
    /\ DbFails
    /\ response.kind = "http"
    /\ response.status = 500
    /\ LoggedError(FailureText)

\* ------------------------------------------------------------------------
\* C16: the application serves POST /api/v1/transform/pxlsviz, and for a
\* valid body the response is the graph that
\* GraphTransformer(parameters).transform_data(input_json) returns.
\* ------------------------------------------------------------------------
C16_EndpointReturnsTransformedGraph ==
    (/\ AskedTransform
     /\ ~transform_data(InitParams(request.parameters), request.input_json).raised) =>
        /\ response.kind = "http"
        /\ response.status = 200
        /\ response.body =
              transform_data(InitParams(request.parameters), request.input_json).result

\* the same, of the route function itself (called without the application)
C16_RouteFunctionReturnsTransformedGraph ==
    (/\ request.op = "transform_routes.transform_to_pxlsviz"
     /\ ~transform_data(InitParams(request.parameters), request.input_json).raised) =>
        /\ response.status = 200
        /\ response.body =
              transform_data(InitParams(request.parameters), request.input_json).result

\* ------------------------------------------------------------------------
\* Neo4jConnection: the drivers and the retry decorator
\* ------------------------------------------------------------------------
\* the arguments of @retry_with_exponential_backoff on _initialize_connection
initial_delay == 1
exponential_base == 2
max_retries == 5
max_delay == 60

\* the names db.py imports (lines 7-14); `asyncio` is not among them
imported_names ==
    {"os", "time", "wraps", "GraphDatabase", "AsyncGraphDatabase", "Date",
     "DateTime", "Time", "Duration", "Point", "get_logger", "json"}

NameError(name) == Exc("NameError", "name '" \o name \o "' is not defined")

\* bound on the driver objects created before calls stop being made
MaxDrivers == 4

\* a driver object, by its position in `drivers`
Ref(n) == [t |-> "driver", v |-> n]
NewDriver(kind, alive) == [kind |-> kind, closed |-> FALSE, alive |-> alive]

\* the connection object as one value
Conn == [driver |-> _driver, async_driver |-> _async_driver,
         initialized |-> _initialized, drivers |-> drivers]

\* what one attempt to connect meets: success, missing environment
\* variables, or a database that cannot be reached
AttemptKinds == {"ok", "noenv", "unreachable"}

AttemptExc(o) ==
    IF o = "noenv"
    THEN Exc("ValueError", "Missing required Neo4j connection environment variables")
    ELSE Exc("ServiceUnavailable", "Unable to retrieve routing information")

\* what the attempts of one call meet; nothing is met after a success
AttemptOutcomes ==
    { o \in [1..max_retries -> AttemptKinds] :
        \A i, j \in 1..max_retries : (i < j /\ o[i] = "ok") => o[j] = "ok" }

\* `if self._driver: self._driver.close()` and the same for the async driver
CloseExisting(c) ==
    [n \in DOMAIN c.drivers |->
        IF (c.driver # PyNone /\ c.driver.v = n)
           \/ (c.async_driver # PyNone /\ c.async_driver.v = n)
        THEN [c.drivers[n] EXCEPT !.closed = TRUE]
        ELSE c.drivers[n]]

\* the body of _initialize_connection, one attempt meeting o
_initialize_connection(c, o) ==
    IF c.initialized
    THEN [c |-> c, ok |-> TRUE, exc |-> PyNone]
    ELSE IF o = "noenv"
    THEN [c |-> [c EXCEPT !.initialized = FALSE], ok |-> FALSE, exc |-> AttemptExc(o)]
    ELSE IF o = "unreachable"
    THEN [c |-> [c EXCEPT !.drivers = Append(CloseExisting(c), NewDriver("sync", FALSE)),
                          !.driver = Ref(Len(c.drivers) + 1),
                          !.initialized = FALSE],
          ok |-> FALSE, exc |-> AttemptExc(o)]
    ELSE [c |-> [c EXCEPT !.drivers = CloseExisting(c) \o
                                      <<NewDriver("sync", TRUE), NewDriver("async", TRUE)>>,
                          !.driver = Ref(Len(c.drivers) + 1),
                          !.async_driver = Ref(Len(c.drivers) + 2),
                          !.initialized = TRUE],
          ok |-> TRUE, exc |-> PyNone]

Min(a, b) == IF a <= b THEN a ELSE b

\* the decorated function: the loop of retry_with_exponential_backoff
RECURSIVE wrapper(_, _, _, _, _)
RECURSIVE after_attempt(_, _, _, _, _)
wrapper(c, outcomes, attempt, delay, sleeps) ==
    after_attempt(_initialize_connection(c, outcomes[attempt + 1]),
                  outcomes, attempt, delay, sleeps)

\* `return await func(...)`, or the except branch of the loop
after_attempt(r, outcomes, attempt, delay, sleeps) ==
    IF r.ok
    THEN [c |-> r.c, kind |-> "returned", exc |-> PyNone,
          attempts |-> attempt + 1, sleeps |-> sleeps]
    ELSE IF attempt = max_retries - 1
    THEN [c |-> r.c, kind |-> "raised", exc |-> r.exc,
          attempts |-> attempt + 1, sleeps |-> sleeps]
    ELSE IF "asyncio" \notin imported_names
    THEN [c |-> r.c, kind |-> "raised", exc |-> NameError("asyncio"),
          attempts |-> attempt + 1, sleeps |-> sleeps]
    ELSE wrapper(r.c, outcomes, attempt + 1,
                 Min(delay * exponential_base, max_delay), Append(sleeps, delay))

\* await self._initialize_connection()
initialize(c, outcomes) == wrapper(c, outcomes, 0, initial_delay, <<>>)

\* self._driver.verify_connectivity() succeeds
Verified(c) ==
    /\ c.driver # PyNone
    /\ c.drivers[c.driver.v].alive
    /\ ~c.drivers[c.driver.v].closed

\* the decorated function was not called
NotCalled(c) ==
    [c |-> c, kind |-> "returned", exc |-> PyNone, attempts |-> 0, sleeps |-> <<>>]

\* the outcome of a Neo4jConnection method: the connection afterwards, the
\* value returned or the exception raised, and what its first call of the
\* decorated _initialize_connection did
Returns(c, value, init) ==
    [c |-> c, kind |-> "returned", value |-> value, exc |-> PyNone,
     init |-> [kind |-> init.kind, exc |-> init.exc,
               attempts |-> init.attempts, sleeps |-> init.sleeps]]
Raises(c, exc, init) ==
    [c |-> c, kind |-> "raised", value |-> PyNone, exc |-> exc,
     init |-> [kind |-> init.kind, exc |-> init.exc,
               attempts |-> init.attempts, sleeps |-> init.sleeps]]

\* get_driver, the except branch: `await self._initialize_connection()`,
\* then `return self._driver`
reconnected(again, init) ==
    IF again.kind = "raised"
    THEN Raises(again.c, again.exc, init)
    ELSE Returns(again.c, again.c.driver, init)

\* get_driver after its first `if`: verify, reconnect if that fails, return
verify_and_return(init, outcomes) ==
    IF init.kind = "raised"
    THEN Raises(init.c, init.exc, init)
    ELSE IF Verified(init.c)
    THEN Returns(init.c, init.c.driver, init)
    ELSE reconnected(initialize(init.c, outcomes), init)

\* Neo4jConnection.get_driver
get_driver(c, outcomes) ==
    verify_and_return(IF ~c.initialized THEN initialize(c, outcomes) ELSE NotCalled(c),
                      outcomes)

\* get_async_driver after its `if`
return_async_driver(init) ==
    IF init.kind = "raised"
    THEN Raises(init.c, init.exc, init)
    ELSE Returns(init.c, init.c.async_driver, init)

\* Neo4jConnection.get_async_driver
get_async_driver(c, outcomes) ==
    return_async_driver(IF ~c.initialized THEN initialize(c, outcomes) ELSE NotCalled(c))

\* Neo4jConnection.close
close(c) ==
    Returns([c EXCEPT !.drivers = CloseExisting(c), !.initialized = FALSE],
            PyNone, NotCalled(c))

DbFrame ==
    UNCHANGED <<transformer_vars, reuse_vars, concurrent_vars, service_vars,
                convert_vars>>

\* the method has run: the connection and the record of the call
Done(op, outcomes, out) ==
    /\ _driver' = out.c.driver
    /\ _async_driver' = out.c.async_driver
    /\ _initialized' = out.c.initialized
    /\ drivers' = out.c.drivers
    /\ db_call' = [op |-> op,
                   outcomes |-> outcomes,
                   before |-> [driver |-> _driver,
                               initialized |-> _initialized,
                               verified |-> Verified(Conn),
                               created |-> Len(drivers)],
                   kind |-> out.kind,
                   value |-> out.value,
                   exc |-> out.exc,
                   init |-> out.init]
    /\ UNCHANGED task

InitDb ==
    /\ TransformerIdle
    /\ ReuseIdle
    /\ ConcurrentIdle
    /\ ServiceIdle
    /\ ConvertIdle
    /\ DbIdle

GetDriver ==
    /\ Len(drivers) < MaxDrivers
    /\ \E o \in AttemptOutcomes : Done("get_driver", o, get_driver(Conn, o))
    /\ DbFrame

GetAsyncDriver ==
    /\ Len(drivers) < MaxDrivers
    /\ \E o \in AttemptOutcomes : Done("get_async_driver", o, get_async_driver(Conn, o))
    /\ DbFrame

\* close() connects to nothing: no attempt is made
Close ==
    /\ Done("close", [i \in 1..max_retries |-> "ok"], close(Conn))
    /\ DbFrame

\* the connection of an open driver is lost
ConnectionBreaks ==
    /\ \E n \in DOMAIN drivers :
          /\ drivers[n].alive
          /\ ~drivers[n].closed
          /\ drivers' = [drivers EXCEPT ![n].alive = FALSE]
    /\ UNCHANGED <<_driver, _async_driver, _initialized, db_call, task>>
    /\ DbFrame

NextDb ==
    \/ GetDriver
    \/ GetAsyncDriver
    \/ Close
    \/ ConnectionBreaks

SpecDb == InitDb /\ [][NextDb]_vars

\* ------------------------------------------------------------------------
\* C17: the decorated function is attempted up to max_retries times; if it
\* fails k < max_retries times and then succeeds, the wrapper has slept
\* initial_delay, initial_delay * base, ... (each capped at max_delay)
\* between the attempts and returns; it raises only after max_retries
\* failed attempts, and then the exception of the last attempt.
\* ------------------------------------------------------------------------
RanInitialize ==
    /\ db_call.op \in {"get_driver", "get_async_driver"}
    /\ ~db_call.before.initialized

\* the number of attempts that fail before the first that succeeds
LeadingFailures(o) ==
    CHOOSE k \in 0..max_retries :
        /\ \A i \in 1..k : o[i] # "ok"
        /\ k = max_retries \/ o[k + 1] = "ok"

ExpectedSleeps(k) ==
    [i \in 1..k |-> Min(initial_delay * exponential_base ^ (i - 1), max_delay)]

C17_RetriesWithBackoff ==
    RanInitialize =>
        LET k == LeadingFailures(db_call.outcomes)
        IN  IF k < max_retries
            THEN /\ db_call.init.kind = "returned"
                 /\ db_call.init.attempts = k + 1
                 /\ db_call.init.sleeps = ExpectedSleeps(k)
            ELSE /\ db_call.init.kind = "raised"
                 /\ db_call.init.attempts = max_retries
                 /\ db_call.init.sleeps = ExpectedSleeps(max_retries - 1)
                 /\ db_call.init.exc = AttemptExc(db_call.outcomes[max_retries])

\* ------------------------------------------------------------------------
\* C18: when the connection is marked initialized and its driver fails
\* the connectivity check, get_driver returns a driver created by this call,
\* never the one that failed, and the one that failed has been closed.
\* ------------------------------------------------------------------------
C18_BrokenDriverIsReplaced ==
    (/\ db_call.op = "get_driver"
     /\ db_call.before.initialized
     /\ ~db_call.before.verified
     /\ db_call.kind = "returned") =>
        /\ db_call.value # db_call.before.driver
        /\ db_call.value.v > db_call.before.created
        /\ drivers[db_call.before.driver.v].closed

\* ------------------------------------------------------------------------
\* json.loads on the JSON texts that occur: lists, objects with string keys,
\* strings without escapes and unsigned integers
\* ------------------------------------------------------------------------
\* the s[i:i+1] of Python: "" past the end
Ch(text, i) == IF i >= 1 /\ i <= Len(text) THEN SubSeq(text, i, i) ELSE ""

Whitespace == {" ", "\t", "\n", "\r"}
Digits == {"0", "1", "2", "3", "4", "5", "6", "7", "8", "9"}

\* the first position from i on whose character is not in chars
SkipAll(text, i, chars) ==
    CHOOSE k \in i..(Len(text) + 1) :
        /\ Ch(text, k) \notin chars
        /\ \A m \in i..(k - 1) : Ch(text, m) \in chars

\* the position of the first `"` from i on, Len + 1 if there is none
ClosingQuote(text, i) ==
    CHOOSE k \in i..(Len(text) + 1) :
        /\ k = Len(text) + 1 \/ Ch(text, k) = "\""
        /\ \A m \in i..(k - 1) : Ch(text, m) # "\""

DigitValue(d) ==
    CASE d = "0" -> 0 [] d = "1" -> 1 [] d = "2" -> 2 [] d = "3" -> 3
      [] d = "4" -> 4 [] d = "5" -> 5 [] d = "6" -> 6 [] d = "7" -> 7
      [] d = "8" -> 8 [] d = "9" -> 9

RECURSIVE ToNat(_)
ToNat(digits) ==
    IF digits = "" THEN 0
    ELSE 10 * ToNat(SubSeq(digits, 1, Len(digits) - 1))
         + DigitValue(SubSeq(digits, Len(digits), Len(digits)))

\* int(text) of CPython refuses more digits than sys.int_info's
\* default_max_str_digits with a ValueError
int_max_str_digits == 4300

Parsed(value, next) == [kind |-> "ok", value |-> value, next |-> next]
JSONDecodeError == [kind |-> "JSONDecodeError", value |-> PyNone, next |-> 0]
DigitLimitError == [kind |-> "ValueError", value |-> PyNone, next |-> 0]

\* an integer literal whose digits are text[i..e-1]
ParseNumber(text, i, e) ==
    IF e - i > int_max_str_digits THEN DigitLimitError
    ELSE Parsed(PyInt(ToNat(SubSeq(text, i, e - 1))), e)

\* a string literal whose opening quote is at i and closing quote at e
ParseString(text, i, e) ==
    IF e > Len(text) THEN JSONDecodeError
    ELSE Parsed(PyStr(SubSeq(text, i + 1, e - 1)), e + 1)

RECURSIVE ParseValue(_, _)
RECURSIVE ParseItems(_, _, _)
RECURSIVE AfterItem(_, _, _)
RECURSIVE ParseMembers(_, _, _)
RECURSIVE AfterKey(_, _, _)
RECURSIVE AfterMember(_, _, _, _)

\* the value that starts at i (no whitespace at i)
ParseValue(text, i) ==
    IF Ch(text, i) = "[" THEN ParseItems(text, SkipAll(text, i + 1, Whitespace), <<>>)
    ELSE IF Ch(text, i) = "{"
    THEN ParseMembers(text, SkipAll(text, i + 1, Whitespace), NoExtra)
    ELSE IF Ch(text, i) = "\"" THEN ParseString(text, i, ClosingQuote(text, i + 1))
    ELSE IF Ch(text, i) \in Digits THEN ParseNumber(text, i, SkipAll(text, i, Digits))
    ELSE JSONDecodeError

\* inside a list, at the start of an item or at the closing bracket
ParseItems(text, i, items) ==
    IF Ch(text, i) = "]" /\ items = <<>> THEN Parsed(PyList(items), i + 1)
    ELSE AfterItem(text, ParseValue(text, i), items)

AfterItem(text, item, items) ==
    IF item.kind # "ok" THEN item
    ELSE IF Ch(text, SkipAll(text, item.next, Whitespace)) = ","
    THEN AfterItem(text,
                   ParseValue(text, SkipAll(text, SkipAll(text, item.next, Whitespace) + 1,
                                            Whitespace)),
                   Append(items, item.value))
    ELSE IF Ch(text, SkipAll(text, item.next, Whitespace)) = "]"
    THEN Parsed(PyList(Append(items, item.value)),
                SkipAll(text, item.next, Whitespace) + 1)
    ELSE JSONDecodeError

\* inside an object, at the start of a key or at the closing brace
ParseMembers(text, i, members) ==
    IF Ch(text, i) = "}" /\ DOMAIN members = {} THEN Parsed(PyDict(members), i + 1)
    ELSE IF Ch(text, i) = "\""
    THEN AfterKey(text, ParseString(text, i, ClosingQuote(text, i + 1)), members)
    ELSE JSONDecodeError

AfterKey(text, key, members) ==
    IF key.kind # "ok" THEN key
    ELSE IF Ch(text, SkipAll(text, key.next, Whitespace)) = ":"
    THEN AfterMember(text, key.value.v,
                     ParseValue(text, SkipAll(text, SkipAll(text, key.next, Whitespace) + 1,
                                              Whitespace)),
                     members)
    ELSE JSONDecodeError

\* a later member with the same key replaces the earlier one
AfterMember(text, key, member, members) ==
    IF member.kind # "ok" THEN member
    ELSE IF Ch(text, SkipAll(text, member.next, Whitespace)) = ","
    THEN ParseMembers(text,
                      SkipAll(text, SkipAll(text, member.next, Whitespace) + 1, Whitespace),
                      (key :> member.value) @@ members)
    ELSE IF Ch(text, SkipAll(text, member.next, Whitespace)) = "}"
    THEN Parsed(PyDict((key :> member.value) @@ members),
                SkipAll(text, member.next, Whitespace) + 1)
    ELSE JSONDecodeError

\* nothing but whitespace may follow the value
WholeText(text, parsed) ==
    IF parsed.kind # "ok" THEN parsed
    ELSE IF SkipAll(text, parsed.next, Whitespace) <= Len(text) THEN JSONDecodeError
    ELSE parsed

\* json.loads(text)
json_loads(text) == WholeText(text, ParseValue(text, SkipAll(text, 1, Whitespace)))

\* ------------------------------------------------------------------------
\* Neo4jConnection._convert_to_serializable
\* ------------------------------------------------------------------------
\* values of the neo4j types: the payload of a temporal value holds the text
\* its iso_format() (Duration: its str()) gives, a Point its coordinates
Neo4jTemporal(type, text) == [t |-> type, v |-> text]
Neo4jPoint(coordinates) == [t |-> "Point", v |-> coordinates]

Value(x) == [raised |-> FALSE, value |-> x, exc |-> PyNone]
Raised(exc) == [raised |-> TRUE, value |-> PyNone, exc |-> exc]

\* data.strip().startswith('{') or data.strip().startswith('[')
LooksLikeJson(text) == Ch(text, SkipAll(text, 1, Whitespace)) \in {"{", "["}

\* a comprehension over converted members: it raises what a member raises
Collect(rs) ==
    IF \E k \in DOMAIN rs : rs[k].raised
    THEN Raised(rs[CHOOSE k \in DOMAIN rs : rs[k].raised].exc)
    ELSE Value([k \in DOMAIN rs |-> rs[k].value])

AsDict(r) == IF r.raised THEN r ELSE Value(PyDict(r.value))
AsList(r) == IF r.raised THEN r ELSE Value(PyList(r.value))

RECURSIVE _convert_to_serializable(_)
RECURSIVE AfterLoads(_, _)

\* the str branch after json.loads: only json.JSONDecodeError is caught
AfterLoads(data, parsed) ==
    IF parsed.kind = "ok" THEN _convert_to_serializable(parsed.value)
    ELSE IF parsed.kind = "JSONDecodeError" THEN Value(data)
    ELSE Raised(Exc(parsed.kind,
                    "Exceeds the limit (4300 digits) for integer string conversion"))

_convert_to_serializable(data) ==
    CASE data.t = "dict" ->
           AsDict(Collect([k \in DOMAIN data.v |-> _convert_to_serializable(data.v[k])]))
      [] data.t = "list" ->
           AsList(Collect([n \in DOMAIN data.v |-> _convert_to_serializable(data.v[n])]))
      [] data.t \in {"Date", "DateTime", "Time", "Duration"} -> Value(PyStr(data.v))
      [] data.t = "Point" ->
           Value(PyDict([x |-> data.v.x, y |-> data.v.y,
                         z |-> IF "z" \in DOMAIN data.v THEN data.v.z ELSE PyNone,
                         srid |-> data.v.srid]))
      [] data.t = "str" ->
           IF LooksLikeJson(data.v) THEN AfterLoads(data, json_loads(data.v))
           ELSE Value(data)
      [] OTHER -> Value(data)

\* text repeated n times
RECURSIVE Repeat(_, _)
Repeat(text, n) ==
    IF n = 0 THEN ""
    ELSE IF n % 2 = 1 THEN text \o Repeat(text, n - 1)
    ELSE Repeat(text \o text, n \div 2)

\* a JSON list of one integer with one digit more than int() accepts
OverlongInteger == "[" \o Repeat("1", int_max_str_digits + 1) \o "]"

ConvertStrings ==
    { "plain", "", "{\"a\": 1}", "[1, \"x\"]", " [12] ", "{bad", "[1", "x[1]",
      "[\"[2]\"]", "{\"k\": \"{x\", \"k2\": [3]}", "[1] x", "[1,]", "[]", "{}",
      OverlongInteger }

ConvertAtoms ==
    { PyStr(text) : text \in ConvertStrings }
    \cup { PyInt(7), PyNone,
           Neo4jTemporal("Date", "2024-05-01"),
           Neo4jTemporal("DateTime", "2024-05-01T12:00:00.000000000"),
           Neo4jTemporal("Time", "12:00:00.000000000"),
           Neo4jTemporal("Duration", "P1M2DT3S"),
           Neo4jPoint([x |-> PyInt(1), y |-> PyInt(2), srid |-> PyInt(7203)]),
           Neo4jPoint([x |-> PyInt(1), y |-> PyInt(2), z |-> PyInt(3),
                       srid |-> PyInt(9157)]) }

\* the atoms, alone and inside lists and mappings (also under a key that
\* looks like JSON), one and two levels deep
ConvertInputs ==
    ConvertAtoms
    \cup { PyList(<<a>>) : a \in ConvertAtoms }
    \cup { PyDict([name |-> a]) : a \in ConvertAtoms }
    \cup { PyDict("[1]" :> a) : a \in ConvertAtoms }
    \cup { PyList(<<PyDict([n |-> PyList(<<a, PyStr("[1]")>>)])>>) : a \in ConvertAtoms }

InitConvert ==
    /\ TransformerIdle
    /\ ReuseIdle
    /\ ConcurrentIdle
    /\ ServiceIdle
    /\ DbIdle
    /\ conv_in \in ConvertInputs
    /\ conv_out = [kind |-> "none"]

Converted(r) ==
    IF r.raised THEN [kind |-> "raised", exc |-> r.exc]
    ELSE [kind |-> "returned", value |-> r.value]

\* self._convert_to_serializable(conv_in)
Convert ==
    /\ conv_out.kind = "none"
    /\ conv_out' = Converted(_convert_to_serializable(conv_in))
    /\ UNCHANGED conv_in
    /\ UNCHANGED <<transformer_vars, reuse_vars, concurrent_vars, service_vars, db_vars>>

NextConvert == Convert

SpecConvert == InitConvert /\ [][NextConvert]_vars

\* ------------------------------------------------------------------------
\* C19: a string at any depth whose trimmed text starts with { or [ is
\* replaced by its parsed and recursively normalized JSON value when it
\* parses and is left unchanged when parsing fails; every other string and
\* every mapping key is unchanged; the conversion does not raise.
\* ------------------------------------------------------------------------
\* the text starts with { or [ after its leading whitespace
StartsLikeJson(text) ==
    \E i \in 1..Len(text) :
        /\ Ch(text, i) \in {"{", "["}
        /\ \A m \in 1..(i - 1) : Ch(text, m) \in Whitespace

RECURSIVE Normalized(_)
Normalized(x) ==
    CASE x.t = "dict" -> PyDict([k \in DOMAIN x.v |-> Normalized(x.v[k])])
      [] x.t = "list" -> PyList([n \in DOMAIN x.v |-> Normalized(x.v[n])])
      [] x.t = "str" ->
           IF StartsLikeJson(x.v) /\ json_loads(x.v).kind = "ok"
           THEN Normalized(json_loads(x.v).value)
           ELSE x
      [] OTHER -> x

\* no value of a neo4j type occurs in x
RECURSIVE PlainPython(_)
PlainPython(x) ==
    CASE x.t \in {"dict", "list"} -> \A k \in DOMAIN x.v : PlainPython(x.v[k])
      [] x.t \in {"str", "int", "none"} -> TRUE
      [] OTHER -> FALSE

C19_JsonStringsNormalized ==
    (conv_out.kind # "none" /\ PlainPython(conv_in)) =>
        /\ conv_out.kind = "returned"
        /\ conv_out.value = Normalized(conv_in)

\* the same of the calls that return
C19_NormalizedWhenReturned ==
    (conv_out.kind = "returned" /\ PlainPython(conv_in)) =>
        conv_out.value = Normalized(conv_in)

\* ------------------------------------------------------------------------
\* C20: when transform_data returns for a list, the skipped counter is the
\* number of non-mapping items plus non-mapping values plus records without
\* two valid nodes plus records with two valid nodes and an invalid kind;
\* records dropped as duplicates are not in it; and the total-processed
\* counter is the number of mapping-valued records, which are the emitted,
\* the dropped and the rejected ones.
\* ------------------------------------------------------------------------
NonMappingItems == { i \in 1..Len(source_data.v) : source_data.v[i].t # "dict" }

NonMappingValues ==
    UNION { { <<i, j>> : j \in { j \in 1..Len(source_data.v[i].v) :
                                   source_data.v[i].v[j].val.t # "dict" } } :
            i \in { i \in 1..Len(source_data.v) : source_data.v[i].t = "dict" } }

RejectedForNodes == RelPositions \ ValidPositions
RejectedForKind == { q \in ValidPositions : ~ValidKind(RelAt(q)) }
EmittedPositions == { built_from[k] : k \in DOMAIN built_from }
DroppedAsDuplicate ==
    { q \in ValidPositions : ValidKind(RelAt(q)) /\ q \notin EmittedPositions }

C20_CountersAccountForEveryEntry ==
    Returned =>
        /\ _skipped_rels = Cardinality(NonMappingItems)
                           + Cardinality(NonMappingValues)
                           + Cardinality(RejectedForNodes)
                           + Cardinality(RejectedForKind)
        /\ _total_rels_processed = Cardinality(RelPositions)
        /\ Len(Edges) = Cardinality(EmittedPositions)
        /\ EmittedPositions \subseteq RelPositions
        /\ _total_rels_processed = Len(Edges)
                                   + Cardinality(DroppedAsDuplicate)
                                   + Cardinality(RejectedForNodes)
                                   + Cardinality(RejectedForKind)

\* two records, the second dropped as a duplicate of the first: two
\* processed, one emitted, none skipped
C20_Witness ==
    /\ Returned
    /\ Cardinality(DroppedAsDuplicate) = 1
    /\ Len(Edges) = 1
    /\ _total_rels_processed = 2
    /\ _skipped_rels = 0

\* a non-mapping item and a rejected record, each counted once
C20_SkipsCounted ==
    /\ Returned
    /\ Cardinality(NonMappingItems) = 1
    /\ Cardinality(RejectedForNodes \cup RejectedForKind) = 1
    /\ _skipped_rels = 2
    /\ _total_rels_processed = 1

\* ------------------------------------------------------------------------
\* C21: when the service the read route calls returns an envelope with
\* status "error", the route answers HTTP 400 with the envelope's error
\* message as detail; it answers HTTP 500 only when the service raised.
\* ------------------------------------------------------------------------
AskedReadRoute == request.op = "query_routes.execute_query"

ServiceGaveErrorEnvelope ==
    /\ AskedReadRoute
    /\ request.service_result.kind = "returned"
    /\ request.service_result.value.status = "error"

C21_ErrorEnvelopeAnswers400 ==
    /\ ServiceGaveErrorEnvelope =>
          /\ response.status = 400
          /\ response.detail = request.service_result.value.error.v
    /\ (AskedReadRoute /\ response.status = 500) =>
          request.service_result.kind = "raised"

\* the half of it that the route keeps: a failure the service raises is
\* answered with HTTP 500 naming the failure, a success envelope with 200
C21_RaisedFailuresAnswer500 ==
    AskedReadRoute =>
        /\ request.service_result.kind = "raised" =>
              /\ response.status = 500
              /\ response.detail = "Error processing request: "
                                      \o ExcStr(request.service_result.exc)
        /\ (request.service_result.kind = "returned"
              /\ request.service_result.value.status = "success") =>
              /\ response.status = 200
              /\ response.body = request.service_result.value

\* an error envelope is never answered with HTTP 400
C21_ErrorEnvelopeAnswers500 ==
    ServiceGaveErrorEnvelope =>
        /\ response.status = 500
        /\ Contains(response.detail, "Error processing request: ")

\* the application, whose read route calls ReadKGService, never answers 400
C21_ApplicationNeverAnswers400 ==
    AskedRead => response.status \in {200, 500}

\* ------------------------------------------------------------------------
\* C22: at every point of a run and in what the call returns, the source
\* and the target of every edge are ids of registered nodes, and every
\* registered node has an id field equal to the key it is registered under.
\* ------------------------------------------------------------------------
EdgeEnds == {"source", "target"}

C22_ReferentialIntegrity ==
    /\ \A n \in DOMAIN _unique_nodes :
          /\ _unique_nodes[n].val.t = "dict"
          /\ "id" \in DOMAIN _unique_nodes[n].val.v
          /\ _unique_nodes[n].val.v["id"] = _unique_nodes[n].key
    /\ \A k \in DOMAIN _transformed_relationships :
          \A end \in EdgeEnds :
             /\ end \in DOMAIN _transformed_relationships[k].v
             /\ \E n \in DOMAIN _unique_nodes :
                   _unique_nodes[n].key = _transformed_relationships[k].v[end]
    /\ pc = "done" =>
          \A k \in DOMAIN result.relationships :
             \A end \in EdgeEnds :
                \E n \in DOMAIN result.nodes :
                   NodeIdOf(result.nodes[n]) = result.relationships[k].v[end]

\* an edge was returned for a record that has properties named source and
\* target besides its two nodes
C22_Witness ==
    /\ Returned
    /\ Len(result.nodes) = 2
    /\ \E k \in DOMAIN Edges :
          \A end \in EdgeEnds :
             /\ end \in DOMAIN EdgeRecord(k).v
             /\ EdgeRecord(k).v[end] # Edges[k].v[end]

\* ------------------------------------------------------------------------
\* Neo4jConnection called by several tasks of one event loop.  A task runs
\* until an await suspends it.  Awaiting a coroutine that does not wait
\* runs it inline, and `asyncio.sleep` is never reached (NameError), so the
\* awaits that can suspend are `await self._async_driver.close()` on a
\* driver that is still open (it may have pooled connections to shut) and
\* the session of execute_query.
\* ------------------------------------------------------------------------
\* bound on the attempts that create drivers before calls stop being made
MaxConnects == 3

Connects == Cardinality({ n \in DOMAIN drivers : drivers[n].kind = "sync" })

\* `await self._async_driver.close()` finds a driver that is not closed
open_async_driver(c) ==
    /\ c.async_driver # PyNone
    /\ ~c.drivers[c.async_driver.v].closed

\* the choices met by one call of _initialize_connection: what the attempt
\* meets, and whether closing an open async driver waits
InitChoices == [o : AttemptKinds, yields : BOOLEAN]

\* where a step leaves its task: suspended at an await, or finished
Suspended(c, at, o) == [c |-> c, kind |-> "suspended", pc |-> at, o |-> o, exc |-> PyNone]
Finished(c, kind, exc) == [c |-> c, kind |-> kind, pc |-> "idle", o |-> "ok", exc |-> exc]

\* _initialize_connection after `await self._async_driver.close()`:
\* lines 111-117, and the except branch when the database is not reached
create_drivers(c, o) ==
    IF o = "unreachable"
    THEN [c |-> [c EXCEPT !.drivers = Append(@, NewDriver("sync", FALSE)),
                          !.driver = Ref(Len(c.drivers) + 1),
                          !.initialized = FALSE],
          ok |-> FALSE, exc |-> AttemptExc(o)]
    ELSE [c |-> [c EXCEPT !.drivers = @ \o <<NewDriver("sync", TRUE),
                                             NewDriver("async", TRUE)>>,
                          !.driver = Ref(Len(c.drivers) + 1),
                          !.async_driver = Ref(Len(c.drivers) + 2),
                          !.initialized = TRUE],
          ok |-> TRUE, exc |-> PyNone]

\* the wrapper around the first attempt, which gave r
after_first_attempt(r, o) ==
    after_attempt(r, [i \in 1..max_retries |-> o], 0, initial_delay, <<>>)

\* `await self._initialize_connection()` up to its return, its raise or
\* the await that suspends it
begin_init(c, ch) ==
    IF c.initialized THEN NotCalled(c)
    ELSE IF ch.o = "noenv"
    THEN after_first_attempt([c |-> [c EXCEPT !.initialized = FALSE],
                              ok |-> FALSE, exc |-> AttemptExc(ch.o)], ch.o)
    ELSE IF open_async_driver(c) /\ ch.yields
    THEN [c |-> [c EXCEPT !.drivers = CloseExisting(c)], kind |-> "suspended",
          exc |-> PyNone]
    ELSE after_first_attempt(
             create_drivers([c EXCEPT !.drivers = CloseExisting(c)], ch.o), ch.o)

\* the same from the await on
resume_init(c, o) == after_first_attempt(create_drivers(c, o), o)

\* get_driver from line 139 on: w is what its second
\* `await self._initialize_connection()` came to
after_init2(w, o) ==
    IF w.kind = "suspended" THEN Suspended(w.c, "init2", o)
    ELSE Finished(w.c, w.kind, w.exc)

\* get_async_driver, get_driver and execute_query after their first
\* `await self._initialize_connection()`, which came to w
after_init1(op, w, o, ch2) ==
    IF w.kind = "suspended" THEN Suspended(w.c, "init1", o)
    ELSE IF w.kind = "raised" THEN Finished(w.c, "raised", w.exc)
    ELSE IF op = "execute_query" THEN Suspended(w.c, "query", o)
    ELSE IF op = "get_async_driver" \/ Verified(w.c)
    THEN Finished(w.c, "returned", PyNone)
    ELSE after_init2(begin_init(w.c, ch2), ch2.o)

\* close() up to the await that suspends it or to its end
begin_close(c, yields) ==
    IF open_async_driver(c) /\ yields
    THEN Suspended([c EXCEPT !.drivers = CloseExisting(c)], "close", "ok")
    ELSE Finished([c EXCEPT !.drivers = CloseExisting(c), !.initialized = FALSE],
                  "returned", PyNone)

\* close() from the await on: line 160
resume_close(c) == Finished([c EXCEPT !.initialized = FALSE], "returned", PyNone)

\* task t has run the call op up to out
TaskStep(t, op, out) ==
    /\ _driver' = out.c.driver
    /\ _async_driver' = out.c.async_driver
    /\ _initialized' = out.c.initialized
    /\ drivers' = out.c.drivers
    /\ task' = [task EXCEPT ![t] = IF out.kind = "suspended"
                                   THEN [pc |-> out.pc, op |-> op, o |-> out.o]
                                   ELSE IdleTask]
    /\ UNCHANGED db_call
    /\ DbFrame

GetOps == {"get_async_driver", "get_driver", "execute_query"}

\* a task calls get_async_driver, get_driver or execute_query
CallGet(t) ==
    /\ task[t].pc = "idle"
    /\ Connects < MaxConnects
    /\ \E op \in GetOps, ch \in InitChoices, ch2 \in InitChoices :
          TaskStep(t, op, after_init1(op, begin_init(Conn, ch), ch.o, ch2))

\* the driver that _initialize_connection closes is shut: the task goes on
ResumeInit(t) ==
    /\ task[t].pc \in {"init1", "init2"}
    /\ \E ch2 \in InitChoices :
          TaskStep(t, task[t].op,
                   IF task[t].pc = "init1"
                   THEN after_init1(task[t].op, resume_init(Conn, task[t].o),
                                    task[t].o, ch2)
                   ELSE after_init2(resume_init(Conn, task[t].o), task[t].o))

\* the query of execute_query is answered
QueryAnswered(t) ==
    /\ task[t].pc = "query"
    /\ TaskStep(t, task[t].op, Finished(Conn, "returned", PyNone))

\* a task calls close
CallClose(t) ==
    /\ task[t].pc = "idle"
    /\ \E yields \in BOOLEAN : TaskStep(t, "close", begin_close(Conn, yields))

\* the driver that close() closes is shut: the task goes on
ResumeClose(t) ==
    /\ task[t].pc = "close"
    /\ TaskStep(t, "close", resume_close(Conn))

NextTasks ==
    \E t \in TaskIds :
        \/ CallGet(t)
        \/ ResumeInit(t)
        \/ QueryAnswered(t)
        \/ CallClose(t)
        \/ ResumeClose(t)

SpecTasks == InitDb /\ [][NextTasks]_vars

\* ------------------------------------------------------------------------
\* C23: in every interleaving of get_async_driver, get_driver, execute_query
\* and close calls, every driver that the connection no longer refers to
\* has been closed, and at most one sync and one async driver are open: a
\* (re)initialization creates one new async driver, never a second one
\* beside it.
\* ------------------------------------------------------------------------
Referred(n) ==
    \/ (_driver # PyNone /\ _driver.v = n)
    \/ (_async_driver # PyNone /\ _async_driver.v = n)

OpenDrivers(kind) ==
    { n \in DOMAIN drivers : drivers[n].kind = kind /\ ~drivers[n].closed }

NoDriverDroppedUnclosed ==
    \A n \in DOMAIN drivers : ~Referred(n) => drivers[n].closed

C23_SingleConnectionUnderConcurrency ==
    /\ NoDriverDroppedUnclosed
    /\ Cardinality(OpenDrivers("async")) <= 1
    /\ Cardinality(OpenDrivers("sync")) <= 1

\* the same of calls made one after the other, none begun before the one
\* before it has ended
C23_HoldsForCallsInSequence == db_call.op # "none" => C23_SingleConnectionUnderConcurrency

====
